---- MODULE Spec2Model ----
(***************************************************************************)
(* Model of the cross-section algebra and of the resonance grid/coverage   *)
(* queries of ries (ries/cross_section.py, ries/resonance/*.py).           *)
(*                                                                         *)
(* Python values are records with one common set of fields; `kind` is the  *)
(* class of the value.  Energies, constants and scale factors are          *)
(* integers.  Probabilities are counted in sixteenths (0..16).             *)
(***************************************************************************)
EXTENDS Integers, Sequences, FiniteSets, TLC

VARIABLES heap, last

vars == <<heap, last>>

(***************************************************************************)
(* Bounds and input sets                                                   *)
(***************************************************************************)
MaxObjs == 4
MaxSumLen == 2
MaxPoints == 4

\* numbers added to cross sections, scalars multiplying them
Numbers == {3}
Scalars == {0, 2}
\* energies of evaluation
Energies == {8, 30}
\* numbers of grid points
GridSizes == {2, 3}
\* arrays of energies of evaluation
EnergyArrays == {<<8>>, <<8, 30>>}
\* limits of energy ranges and coverages (in sixteenths)
AlgebraLimitValues == {0, 30}
ResonanceLimitValues == {-60, 0, 10, 20, 80}
Coverages == {0, 8, 12, 16}
\* resonance energies of the single resonances
ResonanceEnergies == {10, 200}
\* quantiles (in sixteenths) handed to ppf: scalars and arrays
ScalarQuantiles == {0, 4, 8}
ArrayQuantiles == {<<8>>, <<8, 8>>, <<4, 12>>, <<0, 8>>}
\* grid points and function values of the integration routines
GridValues == {0, 1, 2}
FunctionValues == {0, 1}
\* limits of the additional dimensions handed to quad_partition, flattened
\* to lo, hi, lo, hi, ...
AdditionalLimits == {<<>>, <<0, 1>>, <<0, 2, 1, 3>>}
\* the callables handed to darboux
Callables == {"stagger", "ones", "descending"}

(***************************************************************************)
(* Python values                                                           *)
(***************************************************************************)
Blank ==
    [kind |-> "None", constant |-> 0, items |-> <<>>,
     reactions |-> <<>>, scale_factors |-> <<>>,
     resonance_energy |-> 0, energy_integrated_cross_section |-> 0,
     probability_distribution |-> "none",
     probability_distribution_parameters |-> <<>>,
     eta_halves |-> 0, norm_scale |-> 0, cauchy_scale |-> 0,
     sigma |-> 0, gamma |-> 0, Gamma |-> 0]

None == Blank

Number(c) == [Blank EXCEPT !.kind = "number", !.constant = c]

Tuple(lo, hi) == [Blank EXCEPT !.kind = "tuple", !.items = <<lo, hi>>]

Array(items) == [Blank EXCEPT !.kind = "ndarray", !.items = items]

\* the classes derived from CrossSection
ResonanceKinds == {"Resonance", "BreitWigner", "Gauss", "PseudoVoigt", "Voigt"}

CrossSectionKinds == {"CrossSection", "ConstantCrossSection"} \cup ResonanceKinds

IsNumber(x) == x.kind = "number"

IsCrossSection(x) == x.kind \in CrossSectionKinds

IsWeightedSum(x) == x.kind = "CrossSectionWeightedSum"

\* the outcome of a call: a returned value or a raised exception
Return(v) == [exc |-> "none", val |-> v, warnings |-> <<>>]

Raise(e) == [exc |-> e, val |-> None, warnings |-> <<>>]

\* the same outcome after the warnings w were emitted
Warned(w, outcome) == [outcome EXCEPT !.warnings = w \o outcome.warnings]

NoOutcome == Return(None)

(***************************************************************************)
(* ries/cross_section.py                                                   *)
(***************************************************************************)
CrossSection == [Blank EXCEPT !.kind = "CrossSection"]

ConstantCrossSection(constant) ==
    [Blank EXCEPT !.kind = "ConstantCrossSection", !.constant = constant]

\* CrossSectionWeightedSum.__init__; scale_factors = None is has_scale_factors = FALSE
CrossSectionWeightedSum(reactions, has_scale_factors, scale_factors) ==
    [Blank EXCEPT !.kind = "CrossSectionWeightedSum",
                  !.reactions = reactions,
                  !.scale_factors = IF has_scale_factors
                                    THEN scale_factors
                                    ELSE [i \in 1..Len(reactions) |-> 1]]

\* a faulty __add__ that leaves the right operand out of the sum
CrossSectionAdd_DropsOther(self, other) ==
    CrossSectionWeightedSum(<<self>>, FALSE, <<>>)

\* CrossSection.__add__
CrossSectionAdd(self, other) ==
    IF IsNumber(other)
    THEN CrossSectionWeightedSum(<<self, ConstantCrossSection(other.constant)>>, FALSE, <<>>)
    ELSE CrossSectionWeightedSum(<<self, other>>, FALSE, <<>>)

\* CrossSection.__radd__
CrossSectionRAdd(self, other) == CrossSectionAdd(self, other)

\* a faulty __mul__ that builds the sum without handing over the factor
CrossSectionMul_Unscaled(self, other) ==
    CrossSectionWeightedSum(<<self>>, FALSE, <<>>)

\* CrossSection.__mul__
CrossSectionMul(self, other) ==
    CrossSectionWeightedSum(<<self>>, TRUE, <<other.constant>>)

\* CrossSection.__rmul__
CrossSectionRMul(self, other) == CrossSectionMul(self, other)

\* a faulty __add__ that adds a number as itself and not as a constant
\* cross section: the constant is appended with the number as its factor
WeightedSumAdd_NumberAsFactor(self, other) ==
    LET reactions == self.reactions
        scale_factors == [i \in 1..Len(self.reactions) |-> self.scale_factors[i]]
    IN  IF IsNumber(other)
        THEN CrossSectionWeightedSum(
                 Append(reactions, ConstantCrossSection(other.constant)),
                 TRUE, Append(scale_factors, other.constant))
        ELSE IF IsCrossSection(other)
        THEN CrossSectionWeightedSum(
                 Append(reactions, other), TRUE, Append(scale_factors, 1))
        ELSE CrossSectionWeightedSum(
                 reactions \o other.reactions,
                 TRUE,
                 scale_factors
                     \o [i \in 1..Len(other.reactions) |-> other.scale_factors[i]])

\* CrossSectionWeightedSum.__add__
WeightedSumAdd(self, other) ==
    LET reactions == self.reactions
        scale_factors == [i \in 1..Len(self.reactions) |-> self.scale_factors[i]]
    IN  IF IsNumber(other)
        THEN CrossSectionWeightedSum(
                 Append(reactions, ConstantCrossSection(other.constant)),
                 TRUE, Append(scale_factors, 1))
        ELSE IF IsCrossSection(other)
        THEN CrossSectionWeightedSum(
                 Append(reactions, other), TRUE, Append(scale_factors, 1))
        ELSE CrossSectionWeightedSum(
                 reactions \o other.reactions,
                 TRUE,
                 scale_factors
                     \o [i \in 1..Len(other.reactions) |-> other.scale_factors[i]])

\* CrossSectionWeightedSum.__radd__
WeightedSumRAdd(self, other) == WeightedSumAdd(self, other)

\* a faulty __mul__ that scales the first factor and drops the others
WeightedSumMul_FirstFactorOnly(self, other) ==
    CrossSectionWeightedSum(
        self.reactions, TRUE, <<other.constant * self.scale_factors[1]>>)

\* CrossSectionWeightedSum.__mul__
WeightedSumMul(self, other) ==
    CrossSectionWeightedSum(
        self.reactions, TRUE,
        [i \in 1..Len(self.reactions) |-> other.constant * self.scale_factors[i]])

\* CrossSectionWeightedSum.__rmul__
WeightedSumRMul(self, other) == WeightedSumMul(self, other)

\* x + y as Python dispatches it: the left operand's __add__, or, when the
\* left operand is a number, the right operand's __radd__
PyAdd(x, y) ==
    IF IsNumber(x)
    THEN IF IsWeightedSum(y) THEN WeightedSumRAdd(y, x) ELSE CrossSectionRAdd(y, x)
    ELSE IF IsWeightedSum(x) THEN WeightedSumAdd(x, y) ELSE CrossSectionAdd(x, y)

\* x * y with exactly one number among x, y
PyMul(x, y) ==
    IF IsNumber(x)
    THEN IF IsWeightedSum(y) THEN WeightedSumRMul(y, x) ELSE CrossSectionRMul(y, x)
    ELSE IF IsWeightedSum(x) THEN WeightedSumMul(x, y) ELSE CrossSectionMul(x, y)

\* the builtin sum(list): the fold of + over the list, seeded with the integer 0
RECURSIVE PyFold(_, _, _)
PyFold(acc, list, i) ==
    IF i > Len(list) THEN acc ELSE PyFold(PyAdd(acc, list[i]), list, i + 1)

PySum(list) == PyFold(Number(0), list, 1)

(***************************************************************************)
(* scipy.stats distributions on a lattice.  Quantiles are sixteenths,      *)
(* standard quantile offsets are tenths of the scale parameter.            *)
(***************************************************************************)
PosInf == 100000

NegInf == -PosInf

IsInf(x) == x = PosInf \/ x = NegInf

\* standard normal / standard Cauchy quantiles at 1/16 .. 8/16, in tenths
NormTenths == <<-15, -12, -9, -7, -5, -3, -2, 0>>

CauchyTenths == <<-50, -24, -15, -10, -7, -4, -2, 0>>

StdTenths(dist, q) ==
    LET T == IF dist = "norm" THEN NormTenths ELSE CauchyTenths
    IN  IF q <= 8 THEN T[q] ELSE -T[16 - q]

\* scipy.stats.{uniform,norm,cauchy}.ppf(q, loc, scale), q in sixteenths
Ppf(dist, q, loc, scale) ==
    IF dist = "uniform"
    THEN loc + (q * scale) \div 16
    ELSE IF q = 0 THEN NegInf
    ELSE IF q = 16 THEN PosInf
    ELSE loc + (StdTenths(dist, q) * scale) \div 10

\* scipy.stats.{uniform,norm,cauchy}.cdf(x, loc, scale), in sixteenths; far
\* from loc the floating-point value saturates to 0 or 1
Cdf(dist, x, loc, scale) ==
    IF dist = "uniform"
    THEN IF x <= loc THEN 0
         ELSE IF x >= loc + scale THEN 16
         ELSE ((x - loc) * 16) \div scale
    ELSE IF x < Ppf(dist, 1, loc, scale) THEN 0
    ELSE IF x > Ppf(dist, 15, loc, scale) THEN 16
    ELSE IF x >= Ppf(dist, 12, loc, scale) THEN 12
    ELSE IF x >= Ppf(dist, 8, loc, scale) THEN 8
    ELSE 4

Abs(x) == IF x < 0 THEN -x ELSE x

NormPdfMilli == <<399, 242, 54, 4>>

CauchyPdfMilli == <<318, 159, 64, 32, 19>>

\* scipy.stats.{uniform,norm,cauchy}.pdf(x, loc, scale), in thousandths per
\* 16 energy units
Pdf(dist, x, loc, scale) ==
    IF dist = "uniform"
    THEN IF loc <= x /\ x <= loc + scale THEN (1000 * 16) \div scale ELSE 0
    ELSE LET z == (2 * Abs(x - loc) + scale) \div (2 * scale)
             T == IF dist = "norm" THEN NormPdfMilli ELSE CauchyPdfMilli
         IN  IF z + 1 <= Len(T) THEN (T[z + 1] * 16) \div scale ELSE 0

\* the float nan as a grid point
NanFloat == PosInf + 1

\* numpy.linspace(start, stop, num): arange(num) * step + start with the last
\* point overwritten by stop; with an infinite step the first product is
\* 0 * inf = nan, and an infinite start makes every sum inf - inf = nan
Linspace(start, stop, num) ==
    [i \in 1..num |->
        IF i = num /\ num > 1 THEN stop
        ELSE IF IsInf(start) \/ IsInf(stop)
        THEN (IF i = 1 \/ IsInf(start) THEN NanFloat ELSE stop)
        ELSE IF num > 1 THEN start + ((i - 1) * (stop - start)) \div (num - 1)
        ELSE start]

(***************************************************************************)
(* ries/resonance: the resonance models and their distributions            *)
(***************************************************************************)
\* Resonance.__init__: box of width 1 MeV (16 energy units) around the
\* resonance energy
Resonance(resonance_energy, energy_integrated_cross_section) ==
    [Blank EXCEPT !.kind = "Resonance",
                  !.resonance_energy = resonance_energy,
                  !.energy_integrated_cross_section = energy_integrated_cross_section,
                  !.probability_distribution = "uniform",
                  !.probability_distribution_parameters = <<resonance_energy - 8, 16>>]

\* BreitWigner.__init__
BreitWigner(resonance_energy, energy_integrated_cross_section, width) ==
    [Blank EXCEPT !.kind = "BreitWigner",
                  !.resonance_energy = resonance_energy,
                  !.energy_integrated_cross_section = energy_integrated_cross_section,
                  !.probability_distribution = "cauchy",
                  !.probability_distribution_parameters =
                      <<resonance_energy, width \div 2>>]

\* Gauss.__init__; 10000/14142 is 1/sqrt(2)
Gauss(resonance_energy, energy_integrated_cross_section, doppler_width) ==
    [Blank EXCEPT !.kind = "Gauss",
                  !.resonance_energy = resonance_energy,
                  !.energy_integrated_cross_section = energy_integrated_cross_section,
                  !.probability_distribution = "norm",
                  !.probability_distribution_parameters =
                      <<resonance_energy, (doppler_width * 10000) \div 14142>>]

\* PseudoVoigtDistribution.__init__ from the Thompson width Gamma and mixing
\* eta (in halves); 16651/10000 is 2 sqrt(ln 2)
PseudoVoigtDistribution(self, width, doppler_width, Gamma, eta_halves) ==
    LET gamma_G == (Gamma * 10000) \div 16651
        gamma_L == Gamma \div 2
    IN  [self EXCEPT !.eta_halves = eta_halves,
                     !.Gamma = Gamma,
                     !.norm_scale = (gamma_G * 10000) \div 14142,
                     !.cauchy_scale = gamma_L \div 2,
                     !.sigma = (doppler_width * 10000) \div 14142,
                     !.gamma = width \div 2]

\* PseudoVoigt.__init__
PseudoVoigt(resonance_energy, energy_integrated_cross_section, width, doppler_width, Gamma, eta_halves) ==
    PseudoVoigtDistribution(
        [Blank EXCEPT !.kind = "PseudoVoigt",
                      !.resonance_energy = resonance_energy,
                      !.energy_integrated_cross_section = energy_integrated_cross_section,
                      !.probability_distribution = "PseudoVoigtDistribution",
                      !.probability_distribution_parameters = <<>>],
        width, doppler_width, Gamma, eta_halves)

\* Voigt.__init__
Voigt(resonance_energy, energy_integrated_cross_section, width, doppler_width, Gamma, eta_halves) ==
    [PseudoVoigt(resonance_energy, energy_integrated_cross_section, width,
                 doppler_width, Gamma, eta_halves)
        EXCEPT !.kind = "Voigt",
               !.probability_distribution = "SemiPseudoVoigtDistribution"]

ScipyDistributions == {"uniform", "norm", "cauchy"}

\* how scipy.optimize.newton can end
NewtonOutcomes == {"converged", "unconverged", "RuntimeError"}

\* PseudoVoigtDistribution.pseudo_voigt_expression for 'cdf' and 'pdf'
PseudoVoigtExpression(self, x, method) ==
    LET n == IF method = "cdf"
             THEN Cdf("norm", x, self.resonance_energy, self.norm_scale)
             ELSE Pdf("norm", x, self.resonance_energy, self.norm_scale)
        c == IF method = "cdf"
             THEN Cdf("cauchy", x, self.resonance_energy, self.cauchy_scale)
             ELSE Pdf("cauchy", x, self.resonance_energy, self.cauchy_scale)
    IN  ((2 - self.eta_halves) * n + self.eta_halves * c) \div 2

\* PseudoVoigtDistribution.pseudo_voigt_expression for 'ppf'
PseudoVoigtExpressionPpf(self, q) ==
    IF q = 0 THEN NegInf
    ELSE IF q = 16 THEN PosInf
    ELSE ((2 - self.eta_halves) * Ppf("norm", q, self.resonance_energy, self.norm_scale)
          + self.eta_halves * Ppf("cauchy", q, self.resonance_energy, self.cauchy_scale))
         \div 2

\* the root of pseudo_voigt.cdf(E) - q that a converged Newton iteration returns
NewtonRoot(self, q) ==
    LET reach == 6 * (self.norm_scale + self.cauchy_scale)
        range == (self.resonance_energy - reach)..(self.resonance_energy + reach)
        above == {x \in range : PseudoVoigtExpression(self, x, "cdf") >= q}
    IN  CHOOSE x \in above : \A y \in above : x <= y

\* scipy.special.voigt_profile(x, sigma, gamma), in thousandths per 16 units
VoigtProfile(x, sigma, gamma) ==
    LET n == Pdf("norm", x, 0, sigma)
        c == Pdf("cauchy", x, 0, gamma)
    IN  (2 * n * c) \div (n + c + 1)

\* probability_distribution.pdf(E, *probability_distribution_parameters)
DistributionPdf(self, E) ==
    LET d == self.probability_distribution
        p == self.probability_distribution_parameters
    IN  IF d \in ScipyDistributions THEN Pdf(d, E, p[1], p[2])
        ELSE IF d = "SemiPseudoVoigtDistribution"
        THEN VoigtProfile(E - self.resonance_energy, self.sigma, self.gamma)
        ELSE PseudoVoigtExpression(self, E, "pdf")

\* probability_distribution.cdf(E, *probability_distribution_parameters)
DistributionCdf(self, E) ==
    LET d == self.probability_distribution
        p == self.probability_distribution_parameters
    IN  IF d \in ScipyDistributions THEN Cdf(d, E, p[1], p[2])
        ELSE PseudoVoigtExpression(self, E, "cdf")

\* the function whose root newton finds: pseudo_voigt_expression(E, 'cdf') - quantile
NewtonFunc(self, quantile, E) == PseudoVoigtExpression(self, E, "cdf") - quantile

\* a derivative that is the pdf of the distribution object itself
NewtonFprime_OwnPdf(self, E) == DistributionPdf(self, E)

\* the derivative handed to newton: pseudo_voigt_expression(E, 'pdf')
NewtonFprime(self, E) == PseudoVoigtExpression(self, E, "pdf")

\* the start vector handed to newton: resonance_energy * ones(len(quantile))
NewtonStart(self, quantile) == [i \in 1..Len(quantile) |-> self.resonance_energy]

\* the call of scipy.optimize.newton by ppf for an array of quantiles: the
\* start vector and the values of the function and of the derivative there
NewtonCall(self, quantile) ==
    <<Array(NewtonStart(self, quantile)),
      Array([i \in 1..Len(quantile) |->
                NewtonFunc(self, quantile[i], NewtonStart(self, quantile)[i])]),
      Array([i \in 1..Len(quantile) |->
                NewtonFprime(self, NewtonStart(self, quantile)[i])])>>

\* the call of scipy.optimize.newton by ppf for a scalar quantile
NewtonCallScalar(self, quantile) ==
    <<Number(self.resonance_energy),
      Number(NewtonFunc(self, quantile, self.resonance_energy)),
      Number(NewtonFprime(self, self.resonance_energy))>>

\* PseudoVoigtDistribution.ppf for an array of quantiles, newton ending as nw
PseudoVoigtPpf(self, quantile, nw) ==
    IF nw = "RuntimeError"
    THEN Warned(<<"UserWarning: numerical inversion of the CDF failed">>,
                Return(Array([i \in 1..Len(quantile) |->
                                 PseudoVoigtExpressionPpf(self, quantile[i])])))
    ELSE IF nw = "converged"
    THEN Return(Array([i \in 1..Len(quantile) |-> NewtonRoot(self, quantile[i])]))
    ELSE Return(None)

\* PseudoVoigtDistribution.ppf for a scalar quantile, newton ending as nw
PseudoVoigtPpfScalar(self, quantile, nw) ==
    IF nw = "RuntimeError"
    THEN Warned(<<"UserWarning: numerical inversion of the CDF failed">>,
                Return(Number(PseudoVoigtExpressionPpf(self, quantile))))
    ELSE IF nw = "converged"
    THEN Return(Number(NewtonRoot(self, quantile)))
    ELSE Return(None)

\* the ways newton can end for a scalar start value: with disp left at its
\* default it returns only a converged root and raises otherwise
NewtonCanScalar(quantile, nw) ==
    /\ nw \in {"converged", "RuntimeError"}
    /\ nw = "converged" => quantile \in 1..15

\* probability_distribution.ppf(quantile, *probability_distribution_parameters)
DistributionPpf(self, quantile, nw) ==
    LET d == self.probability_distribution
        p == self.probability_distribution_parameters
    IN  IF d \in ScipyDistributions
        THEN Return(Array([i \in 1..Len(quantile) |-> Ppf(d, quantile[i], p[1], p[2])]))
        ELSE PseudoVoigtPpf(self, quantile, nw)

\* the ways newton can end for these quantiles: it cannot converge on a
\* quantile of 0 or 1; a scipy distribution does not call it
NewtonCan(self, quantile, nw) ==
    IF self.probability_distribution \in ScipyDistributions
    THEN nw = "converged"
    ELSE nw = "converged" => \A i \in 1..Len(quantile) : quantile[i] \in 1..15

\* the quantile pair of a coverage c (in sixteenths): 0.5 * (1 -/+ c)
CoverageQuantiles(coverage) == <<(16 - coverage) \div 2, (16 + coverage) \div 2>>

\* a coverage_interval that tests the upper limit before the lower one
CoverageInterval_UpperFirst(self, coverage, nw) ==
    LET p == DistributionPpf(self, CoverageQuantiles(coverage), nw)
        limits == p.val.items
        w1 == IF limits[1] < 0
              THEN <<"UserWarning: Unphysical negative lower limit">>
              ELSE <<>>
        w2 == IF IsInf(limits[2])
              THEN <<"UserWarning: Infinite upper limit">>
              ELSE <<>>
    IN  IF p.val = None
        THEN Warned(p.warnings, Raise("TypeError"))
        ELSE Warned(p.warnings \o w2 \o w1, Return(Array(limits)))

\* a coverage_interval that sets a negative lower limit to 0
CoverageInterval_Clamped(self, coverage, nw) ==
    LET p == DistributionPpf(self, CoverageQuantiles(coverage), nw)
        limits == p.val.items
        w1 == IF limits[1] < 0
              THEN <<"UserWarning: Unphysical negative lower limit">>
              ELSE <<>>
        w2 == IF IsInf(limits[2])
              THEN <<"UserWarning: Infinite upper limit">>
              ELSE <<>>
    IN  IF p.val = None
        THEN Warned(p.warnings, Raise("TypeError"))
        ELSE Warned(p.warnings \o w1 \o w2,
                    Return(Array(<<IF limits[1] < 0 THEN 0 ELSE limits[1], limits[2]>>)))

\* Resonance.coverage_interval
CoverageInterval(self, coverage, nw) ==
    LET p == DistributionPpf(self, CoverageQuantiles(coverage), nw)
        limits == p.val.items
        w1 == IF limits[1] < 0
              THEN <<"UserWarning: Unphysical negative lower limit">>
              ELSE <<>>
        w2 == IF IsInf(limits[2])
              THEN <<"UserWarning: Infinite upper limit">>
              ELSE <<>>
    IN  IF p.val = None
        THEN Warned(p.warnings, Raise("TypeError"))
        ELSE Warned(p.warnings \o w1 \o w2, Return(Array(limits)))

\* Resonance.equidistant_probability_grid
ResonanceProbabilityGrid(self, coverage_or_limits, n_points, nw) ==
    LET limits == IF IsNumber(coverage_or_limits)
                  THEN CoverageQuantiles(coverage_or_limits.constant)
                  ELSE <<DistributionCdf(self, coverage_or_limits.items[1]),
                         DistributionCdf(self, coverage_or_limits.items[2])>>
        p == DistributionPpf(self, Linspace(limits[1], limits[2], n_points), nw)
        equ_dis_pro_grid == p.val.items
    IN  IF IsNumber(coverage_or_limits)
        THEN p
        ELSE IF p.val = None
        THEN Warned(p.warnings, Raise("TypeError"))
        ELSE IF n_points = 0
        THEN Warned(p.warnings, Raise("IndexError"))
        ELSE Warned(p.warnings,
                    Return(Array([k \in 1..Len(equ_dis_pro_grid) |->
                                     IF k = n_points THEN coverage_or_limits.items[2]
                                     ELSE IF k = 1 THEN coverage_or_limits.items[1]
                                     ELSE equ_dis_pro_grid[k]])))

\* CrossSection.equidistant_energy_grid
CrossSectionEnergyGrid(self, limits, n_points) ==
    Return(Array(Linspace(limits.items[1], limits.items[2], n_points)))

\* Resonance.equidistant_energy_grid
ResonanceEnergyGrid(self, coverage_or_limits, n_points, nw) ==
    LET c == IF IsNumber(coverage_or_limits)
             THEN CoverageInterval(self, coverage_or_limits.constant, nw)
             ELSE Return(coverage_or_limits)
    IN  IF c.exc # "none" THEN c
        ELSE Warned(c.warnings, CrossSectionEnergyGrid(self, c.val, n_points))

\* the quantiles a grid or coverage query of a resonance hands to ppf
QueryQuantiles(self, coverage_or_limits, n_points) ==
    IF IsNumber(coverage_or_limits)
    THEN Linspace(CoverageQuantiles(coverage_or_limits.constant)[1],
                  CoverageQuantiles(coverage_or_limits.constant)[2], n_points)
    ELSE Linspace(DistributionCdf(self, coverage_or_limits.items[1]),
                  DistributionCdf(self, coverage_or_limits.items[2]), n_points)

(***************************************************************************)
(* Evaluation and grids of any cross section                               *)
(***************************************************************************)
RECURSIVE SortSet(_)
SortSet(S) ==
    IF S = {} THEN <<>>
    ELSE LET m == CHOOSE x \in S : \A y \in S : x <= y
         IN  <<m>> \o SortSet(S \ {m})

\* numpy.unique
Unique(list) == SortSet({list[i] : i \in 1..Len(list)})

RECURSIVE Call(_, _)
RECURSIVE WeightedSumCallLoop(_, _, _, _)

\* the loop of CrossSectionWeightedSum.__call__ from reaction i on
WeightedSumCallLoop(self, energy, i, cross_section) ==
    IF i > Len(self.reactions)
    THEN Return(Number(cross_section))
    ELSE LET r == Call(self.reactions[i], energy)
         IN  IF r.exc # "none" THEN r
             ELSE WeightedSumCallLoop(
                      self, energy, i + 1,
                      cross_section + self.scale_factors[i] * r.val.constant)

\* CrossSectionWeightedSum.__call__
WeightedSumCall(self, energy) == WeightedSumCallLoop(self, energy, 1, 0)

\* CrossSection.__call__
CrossSectionCall(self, E) == Raise("NotImplementedError")

\* ConstantCrossSection.__call__
ConstantCall(self, energy) == Return(Number(self.constant))

\* Resonance.__call__ without the energy-integrated cross section
ResonanceCall_PdfOnly(self, E) == Return(Number(DistributionPdf(self, E)))

\* Resonance.__call__
ResonanceCall(self, E) ==
    Return(Number(self.energy_integrated_cross_section * DistributionPdf(self, E)))

\* obj(energy)
Call(self, energy) ==
    IF self.kind = "CrossSection" THEN CrossSectionCall(self, energy)
    ELSE IF self.kind = "ConstantCrossSection" THEN ConstantCall(self, energy)
    ELSE IF self.kind \in ResonanceKinds THEN ResonanceCall(self, energy)
    ELSE IF IsWeightedSum(self) THEN WeightedSumCall(self, energy)
    ELSE Raise("TypeError")

\* k * v in numpy: a number times a number or times every entry of an array
NpTimes(k, v) ==
    IF IsNumber(v) THEN Number(k * v.constant)
    ELSE Array([i \in 1..Len(v.items) |-> k * v.items[i]])

\* a + b in numpy for numbers and arrays of one length: a number is
\* broadcast over an array
NpPlus(a, b) ==
    IF IsNumber(a) /\ IsNumber(b) THEN Number(a.constant + b.constant)
    ELSE IF IsNumber(a) THEN Array([i \in 1..Len(b.items) |-> a.constant + b.items[i]])
    ELSE IF IsNumber(b) THEN Array([i \in 1..Len(a.items) |-> a.items[i] + b.constant])
    ELSE Array([i \in 1..Len(a.items) |-> a.items[i] + b.items[i]])

RECURSIVE CallArray(_, _)
RECURSIVE WeightedSumCallArrayLoop(_, _, _, _)

\* the loop of CrossSectionWeightedSum.__call__ from reaction i on, energy
\* an array
WeightedSumCallArrayLoop(self, energy, i, cross_section) ==
    IF i > Len(self.reactions)
    THEN Return(cross_section)
    ELSE LET r == CallArray(self.reactions[i], energy)
         IN  IF r.exc # "none" THEN r
             ELSE WeightedSumCallArrayLoop(
                      self, energy, i + 1,
                      NpPlus(cross_section, NpTimes(self.scale_factors[i], r.val)))

\* CrossSectionWeightedSum.__call__, energy an array
WeightedSumCallArray(self, energy) == WeightedSumCallArrayLoop(self, energy, 1, Number(0))

\* ConstantCrossSection.__call__, energy an array: the constant itself
ConstantCallArray(self, energy) == Return(Number(self.constant))

\* Resonance.__call__, energy an array: pdf is evaluated entry by entry
ResonanceCallArray(self, E) ==
    Return(Array([i \in 1..Len(E) |->
                     self.energy_integrated_cross_section * DistributionPdf(self, E[i])]))

\* obj(energy), energy an array
CallArray(self, energy) ==
    IF self.kind = "CrossSection" THEN CrossSectionCall(self, energy)
    ELSE IF self.kind = "ConstantCrossSection" THEN ConstantCallArray(self, energy)
    ELSE IF self.kind \in ResonanceKinds THEN ResonanceCallArray(self, energy)
    ELSE IF IsWeightedSum(self) THEN WeightedSumCallArray(self, energy)
    ELSE Raise("TypeError")

RECURSIVE ProbabilityGrid(_, _, _, _)
RECURSIVE WeightedSumGridLoop(_, _, _, _, _, _, _)

\* the loop of CrossSectionWeightedSum.equidistant_probability_grid from
\* reaction i on, then chain and numpy.unique
WeightedSumGridLoop(self, limits, n, nw, i, grid, warnings) ==
    IF i > Len(self.reactions)
    THEN Warned(warnings, Return(Array(Unique(grid))))
    ELSE LET r == ProbabilityGrid(self.reactions[i], limits, n, nw)
         IN  IF r.exc # "none" THEN Warned(warnings, r)
             ELSE IF r.val = None
             THEN Warned(warnings \o r.warnings, Raise("TypeError"))
             ELSE WeightedSumGridLoop(self, limits, n, nw, i + 1,
                                      grid \o r.val.items,
                                      warnings \o r.warnings)

\* a faulty grid that starts the loop at the second reaction
WeightedSumProbabilityGrid_SkipsFirst(self, limits, n_points_per_cross_section, nw) ==
    WeightedSumGridLoop(self, limits, n_points_per_cross_section, nw, 2, <<>>, <<>>)

\* CrossSectionWeightedSum.equidistant_probability_grid
WeightedSumProbabilityGrid(self, limits, n_points_per_cross_section, nw) ==
    WeightedSumGridLoop(self, limits, n_points_per_cross_section, nw, 1, <<>>, <<>>)

\* an abstract grid that returns a default instead of raising
CrossSectionProbabilityGrid_Default(self, limits, n_points) == Return(Array(<<>>))

\* CrossSection.equidistant_probability_grid
CrossSectionProbabilityGrid(self, limits, n_points) == Raise("NotImplementedError")

\* ConstantCrossSection.equidistant_probability_grid
ConstantProbabilityGrid(self, limits, n_points) ==
    IF IsNumber(limits) THEN Raise("TypeError")
    ELSE Return(Array(Linspace(limits.items[1], limits.items[2], n_points)))

\* obj.equidistant_probability_grid(limits, n)
ProbabilityGrid(self, limits, n, nw) ==
    IF self.kind = "CrossSection" THEN CrossSectionProbabilityGrid(self, limits, n)
    ELSE IF self.kind = "ConstantCrossSection" THEN ConstantProbabilityGrid(self, limits, n)
    ELSE IF self.kind \in ResonanceKinds THEN ResonanceProbabilityGrid(self, limits, n, nw)
    ELSE IF IsWeightedSum(self) THEN WeightedSumProbabilityGrid(self, limits, n, nw)
    ELSE Raise("TypeError")

(***************************************************************************)
(* The state machine.  heap is the set of cross-section objects the        *)
(* program has created so far; last is the latest operation, with its      *)
(* operands and its result or outcome.                                     *)
(***************************************************************************)
Op(op, self, other, list, args, result, outcome) ==
    [op |-> op, self |-> self, other |-> other, list |-> list, args |-> args,
     result |-> result, outcome |-> outcome, newton |-> "none"]

\* an operation during which newton ended as nw
OpNewton(op, self, args, nw, outcome) ==
    [Op(op, self, None, <<>>, args, None, outcome) EXCEPT !.newton = nw]

NoOp == Op("init", None, None, <<>>, <<>>, None, NoOutcome)

TupleLimits(values) ==
    {Tuple(pair[1], pair[2]) : pair \in {p \in values \X values : p[1] < p[2]}}

\* x + y
Add(x, y) ==
    /\ Cardinality(heap) < MaxObjs
    /\ heap' = heap \cup {PyAdd(x, y)}
    /\ last' = Op("__add__", x, y, <<>>, <<>>, PyAdd(x, y), NoOutcome)

\* x + c
AddNumber(x, c) ==
    /\ Cardinality(heap) < MaxObjs
    /\ heap' = heap \cup {PyAdd(x, Number(c))}
    /\ last' = Op("__add__", x, Number(c), <<>>, <<>>, PyAdd(x, Number(c)), NoOutcome)

\* c + x
RAddNumber(c, x) ==
    /\ Cardinality(heap) < MaxObjs
    /\ heap' = heap \cup {PyAdd(Number(c), x)}
    /\ last' = Op("__radd__", x, Number(c), <<>>, <<>>, PyAdd(Number(c), x), NoOutcome)

\* x * k
Mul(x, k) ==
    /\ Cardinality(heap) < MaxObjs
    /\ heap' = heap \cup {PyMul(x, Number(k))}
    /\ last' = Op("__mul__", x, Number(k), <<>>, <<>>, PyMul(x, Number(k)), NoOutcome)

\* k * x
RMul(k, x) ==
    /\ Cardinality(heap) < MaxObjs
    /\ heap' = heap \cup {PyMul(Number(k), x)}
    /\ last' = Op("__rmul__", x, Number(k), <<>>, <<>>, PyMul(Number(k), x), NoOutcome)

\* sum(list); the result is kept in last
Sum(list) ==
    /\ last' = Op("sum", None, None, list, <<>>, PySum(list), NoOutcome)
    /\ UNCHANGED heap

\* x(E)
Evaluate(x, E) ==
    /\ last' = Op("__call__", x, None, <<>>, <<Number(E)>>, None, Call(x, E))
    /\ UNCHANGED heap

\* x(E), E an array of energies
EvaluateArray(x, E) ==
    /\ last' = Op("__call__", x, None, <<>>, <<Array(E)>>, None, CallArray(x, E))
    /\ UNCHANGED heap

\* x.equidistant_probability_grid(limits, n)
EquidistantProbabilityGrid(x, limits, n, nw) ==
    /\ IF x.kind \in ResonanceKinds
       THEN NewtonCan(x, QueryQuantiles(x, limits, n), nw)
       ELSE nw = "converged"
    /\ last' = OpNewton("equidistant_probability_grid", x, <<limits, Number(n)>>,
                        nw, ProbabilityGrid(x, limits, n, nw))
    /\ UNCHANGED heap

\* x.equidistant_energy_grid(coverage_or_limits, n) of a resonance
EquidistantEnergyGrid(x, coverage_or_limits, n, nw) ==
    /\ x.kind \in ResonanceKinds
    /\ IF IsNumber(coverage_or_limits)
       THEN NewtonCan(x, CoverageQuantiles(coverage_or_limits.constant), nw)
       ELSE nw = "converged"
    /\ last' = OpNewton("equidistant_energy_grid", x, <<coverage_or_limits, Number(n)>>,
                        nw, ResonanceEnergyGrid(x, coverage_or_limits, n, nw))
    /\ UNCHANGED heap

\* the maximum coverage that the negative-limit warning of coverage_interval
\* reports, in sixteenths of 100 %: probability_distribution.cdf(0.0), for
\* a scipy distribution with its default parameters (loc 0, scale 1 MeV)
MaximumCoverage(self) ==
    16 - (IF self.probability_distribution \in ScipyDistributions
          THEN Cdf(self.probability_distribution, 0, 0, 16)
          ELSE PseudoVoigtExpression(self, 0, "cdf"))

\* a coverage_interval call with its outcome; result is the maximum coverage
\* in the text of the negative-limit warning, if that was emitted
CoverageIntervalOp(x, coverage, nw, outcome) ==
    [OpNewton("coverage_interval", x, <<Number(coverage)>>, nw, outcome)
        EXCEPT !.result =
            IF \E i \in 1..Len(outcome.warnings) :
                   outcome.warnings[i] = "UserWarning: Unphysical negative lower limit"
            THEN Number(MaximumCoverage(x))
            ELSE None]

\* x.coverage_interval(coverage)
CallCoverageInterval(x, coverage, nw) ==
    /\ x.kind \in ResonanceKinds
    /\ NewtonCan(x, CoverageQuantiles(coverage), nw)
    /\ last' = CoverageIntervalOp(x, coverage, nw, CoverageInterval(x, coverage, nw))
    /\ UNCHANGED heap

\* x.probability_distribution.ppf(quantile), x a pseudo-Voigt or Voigt
\* resonance, quantile a float
CallPpfScalar(x, quantile, nw) ==
    /\ x.kind \in {"PseudoVoigt", "Voigt"}
    /\ NewtonCanScalar(quantile, nw)
    /\ last' = [OpNewton("ppf", x, <<Number(quantile)>>, nw,
                         PseudoVoigtPpfScalar(x, quantile, nw))
                   EXCEPT !.list = NewtonCallScalar(x, quantile)]
    /\ UNCHANGED heap

\* x.probability_distribution.ppf(quantile), quantile an array
CallPpfArray(x, quantile, nw) ==
    /\ x.kind \in {"PseudoVoigt", "Voigt"}
    /\ NewtonCan(x, quantile, nw)
    /\ last' = [OpNewton("ppf", x, <<Array(quantile)>>, nw,
                         PseudoVoigtPpf(x, quantile, nw))
                   EXCEPT !.list = NewtonCall(x, quantile)]
    /\ UNCHANGED heap

\* The algebra: a constant and a resonance, combined by + and *
Init ==
    /\ heap = {ConstantCrossSection(5), Resonance(8, 2)}
    /\ last = NoOp

Next ==
    \/ \E x, y \in heap : Add(x, y)
    \/ \E x \in heap, c \in Numbers : AddNumber(x, c)
    \/ \E x \in heap, c \in Numbers : RAddNumber(c, x)
    \/ \E x \in heap, k \in Scalars : Mul(x, k)
    \/ \E x \in heap, k \in Scalars : RMul(k, x)
    \/ \E x \in heap, limits \in TupleLimits(AlgebraLimitValues), n \in GridSizes :
          \E nw \in NewtonOutcomes : EquidistantProbabilityGrid(x, limits, n, nw)
    \/ \E x \in heap, E \in EnergyArrays : EvaluateArray(x, E)

Spec == Init /\ [][Next]_vars

\* Numbers, scaled cross sections and sum() over lists of what was built
NextSum ==
    \/ \E x \in heap, c \in Numbers : AddNumber(x, c)
    \/ \E x \in heap, c \in Numbers : RAddNumber(c, x)
    \/ \E x \in heap, k \in Scalars : Mul(x, k)
    \/ \E n \in 1..MaxSumLen : \E list \in [1..n -> heap] : Sum(list)

SpecSum == Init /\ [][NextSum]_vars

\* The single cross sections: the abstract one and every resonance model
SingleCrossSections ==
    {CrossSection}
    \cup {Resonance(e, 2) : e \in ResonanceEnergies}
    \cup {BreitWigner(e, 2, 20) : e \in ResonanceEnergies}
    \cup {Gauss(e, 2, 28) : e \in ResonanceEnergies}
    \cup {PseudoVoigt(e, 2, 20, 28, 40, 1) : e \in ResonanceEnergies}
    \cup {Voigt(e, 2, 20, 28, 40, 1) : e \in ResonanceEnergies}

InitSingle ==
    /\ heap \in {{x} : x \in SingleCrossSections}
    /\ last = NoOp

NextSingle ==
    \/ \E x \in heap, E \in Energies : Evaluate(x, E)
    \/ \E x \in heap, n \in GridSizes, nw \in NewtonOutcomes :
          \E limits \in TupleLimits(ResonanceLimitValues) \cup {Number(c) : c \in Coverages} :
              EquidistantProbabilityGrid(x, limits, n, nw)
    \/ \E x \in heap, n \in GridSizes, nw \in NewtonOutcomes :
          \E limits \in TupleLimits(ResonanceLimitValues) \cup {Number(c) : c \in Coverages} :
              EquidistantEnergyGrid(x, limits, n, nw)
    \/ \E x \in heap, c \in Coverages, nw \in NewtonOutcomes :
          CallCoverageInterval(x, c, nw)
    \/ \E x \in heap, q \in ScalarQuantiles, nw \in NewtonOutcomes :
          CallPpfScalar(x, q, nw)
    \/ \E x \in heap, q \in ArrayQuantiles, nw \in NewtonOutcomes :
          CallPpfArray(x, q, nw)

SpecSingle == InitSingle /\ [][NextSingle]_vars

(***************************************************************************)
(* PseudoVoigtDistribution.ppf step by step.  last is the call: its        *)
(* distribution and quantile, the position pc in the body of ppf, how      *)
(* often newton was started and how often the fallback expression was      *)
(* evaluated, and the outcome once the call has ended.                     *)
(***************************************************************************)
\* a bound on the starts of newton within one call
MaxAttempts == 2

PpfCall(self, quantile, nw, pc, newton_calls, fallback_calls, outcome) ==
    OpNewton("ppf", self, <<quantile>>, nw, outcome)
    @@ [pc |-> pc, newton_calls |-> newton_calls, fallback_calls |-> fallback_calls]

\* a handler of RuntimeError that tries again
PpfNext_Retry(pc, nw) ==
    IF pc = "try" THEN "newton"
    ELSE IF pc = "newton" /\ nw = "RuntimeError" THEN "except"
    ELSE IF pc = "except" THEN "try"
    ELSE "return"

\* the control flow of ppf: the try block calls newton; a RuntimeError leads
\* into the handler, every other end of newton and the handler leave ppf
PpfNext(pc, nw) ==
    IF pc = "try" THEN "newton"
    ELSE IF pc = "newton" /\ nw = "RuntimeError" THEN "except"
    ELSE "return"

\* ppf of a scalar or of an array of quantiles, newton ending as nw
PpfOutcome(self, quantile, nw) ==
    IF IsNumber(quantile) THEN PseudoVoigtPpfScalar(self, quantile.constant, nw)
    ELSE PseudoVoigtPpf(self, quantile.items, nw)

\* the try block starts newton
TryNewton ==
    /\ last.pc = "try"
    /\ last.newton_calls < MaxAttempts
    /\ last' = PpfCall(last.self, last.args[1], "none", PpfNext(last.pc, "none"),
                       last.newton_calls + 1, last.fallback_calls, NoOutcome)
    /\ UNCHANGED heap

\* newton ends: ppf returns the roots if all converged, falls off its end if
\* not, and enters the handler on a RuntimeError
NewtonEnds(nw) ==
    /\ last.pc = "newton"
    /\ IF IsNumber(last.args[1])
       THEN NewtonCanScalar(last.args[1].constant, nw)
       ELSE NewtonCan(last.self, last.args[1].items, nw)
    /\ last' = PpfCall(last.self, last.args[1], nw, PpfNext(last.pc, nw),
                       last.newton_calls, last.fallback_calls,
                       IF nw = "RuntimeError" THEN NoOutcome
                       ELSE PpfOutcome(last.self, last.args[1], nw))
    /\ UNCHANGED heap

\* the handler warns and returns pseudo_voigt_expression(quantile, 'ppf')
ExceptRuntimeError ==
    /\ last.pc = "except"
    /\ last' = PpfCall(last.self, last.args[1], last.newton, PpfNext(last.pc, last.newton),
                       last.newton_calls, last.fallback_calls + 1,
                       PpfOutcome(last.self, last.args[1], last.newton))
    /\ UNCHANGED heap

InitPpf ==
    /\ heap \in {{x} : x \in {y \in SingleCrossSections : y.kind \in {"PseudoVoigt", "Voigt"}}}
    /\ \E x \in heap :
          \E quantile \in {Number(q) : q \in ScalarQuantiles} \cup {Array(q) : q \in ArrayQuantiles} :
              last = PpfCall(x, quantile, "none", "try", 0, 0, NoOutcome)

NextPpf ==
    \/ TryNewton
    \/ \E nw \in NewtonOutcomes : NewtonEnds(nw)
    \/ ExceptRuntimeError

SpecPpf == InitPpf /\ [][NextPpf]_vars

(***************************************************************************)
(* The algebra on Python objects with identity.  Here heap is the set of   *)
(* allocated cells: cross-section objects, and the list objects their      *)
(* reactions and scale_factors attributes refer to by id.                  *)
(***************************************************************************)
Ref(id) == [Blank EXCEPT !.kind = "ref", !.constant = id]

\* a list object
ListCell(id, items) ==
    [id |-> id, kind |-> "list", constant |-> 0, items |-> items,
     reactions |-> 0, scale_factors |-> 0]

\* a ConstantCrossSection or Resonance object
AtomCell(id, kind, constant) ==
    [id |-> id, kind |-> kind, constant |-> constant, items |-> <<>>,
     reactions |-> 0, scale_factors |-> 0]

\* CrossSectionWeightedSum.__init__ with both lists given: the attributes
\* refer to the lists that were passed
WeightedSumCell(id, reactions, scale_factors) ==
    [id |-> id, kind |-> "CrossSectionWeightedSum", constant |-> 0, items |-> <<>>,
     reactions |-> reactions, scale_factors |-> scale_factors]

\* the cell with this id
CellOf(h, id) == CHOOSE c \in h : c.id = id

\* the cross-section objects among the cells
ObjectIds(h) == {c.id : c \in {d \in h : d.kind # "list"}}

\* CrossSection.__add__ and __radd__: a new list [self, other], a new list
\* of ones made by __init__, a new ConstantCrossSection for a number
RefCrossSectionAdd(h, self, other) ==
    LET n == Cardinality(h)
    IN  IF IsNumber(other)
        THEN [heap |-> h \cup {AtomCell(n + 1, "ConstantCrossSection", other.constant),
                               ListCell(n + 2, <<self, n + 1>>),
                               ListCell(n + 3, <<1, 1>>),
                               WeightedSumCell(n + 4, n + 2, n + 3)},
              result |-> n + 4]
        ELSE [heap |-> h \cup {ListCell(n + 1, <<self, other.constant>>),
                               ListCell(n + 2, <<1, 1>>),
                               WeightedSumCell(n + 3, n + 1, n + 2)},
              result |-> n + 3]

\* CrossSection.__mul__ and __rmul__
RefCrossSectionMul(h, self, other) ==
    LET n == Cardinality(h)
    IN  [heap |-> h \cup {ListCell(n + 1, <<self>>),
                          ListCell(n + 2, <<other.constant>>),
                          WeightedSumCell(n + 3, n + 1, n + 2)},
         result |-> n + 3]

\* a faulty __add__ that appends to the lists of self instead of to copies
RefWeightedSumAdd_InPlace(h, self, other) ==
    LET n == Cardinality(h)
        me == CellOf(h, self)
        r == CellOf(h, me.reactions)
        f == CellOf(h, me.scale_factors)
        rest == h \ {r, f}
    IN  IF IsNumber(other)
        THEN [heap |-> rest \cup {AtomCell(n + 1, "ConstantCrossSection", other.constant),
                                  ListCell(r.id, Append(r.items, n + 1)),
                                  ListCell(f.id, Append(f.items, 1)),
                                  WeightedSumCell(n + 2, r.id, f.id)},
              result |-> n + 2]
        ELSE IF CellOf(h, other.constant).kind # "CrossSectionWeightedSum"
        THEN [heap |-> rest \cup {ListCell(r.id, Append(r.items, other.constant)),
                                  ListCell(f.id, Append(f.items, 1)),
                                  WeightedSumCell(n + 1, r.id, f.id)},
              result |-> n + 1]
        ELSE LET you == CellOf(h, other.constant)
             IN  [heap |-> rest \cup {ListCell(r.id, r.items \o CellOf(h, you.reactions).items),
                                      ListCell(f.id, f.items \o CellOf(h, you.scale_factors).items),
                                      WeightedSumCell(n + 1, r.id, f.id)},
                  result |-> n + 1]

\* CrossSectionWeightedSum.__add__ and __radd__: new lists filled from the
\* lists of self, then from other
RefWeightedSumAdd(h, self, other) ==
    LET n == Cardinality(h)
        me == CellOf(h, self)
        reactions == CellOf(h, me.reactions).items
        scale_factors == CellOf(h, me.scale_factors).items
    IN  IF IsNumber(other)
        THEN [heap |-> h \cup {AtomCell(n + 1, "ConstantCrossSection", other.constant),
                               ListCell(n + 2, Append(reactions, n + 1)),
                               ListCell(n + 3, Append(scale_factors, 1)),
                               WeightedSumCell(n + 4, n + 2, n + 3)},
              result |-> n + 4]
        ELSE IF CellOf(h, other.constant).kind # "CrossSectionWeightedSum"
        THEN [heap |-> h \cup {ListCell(n + 1, Append(reactions, other.constant)),
                               ListCell(n + 2, Append(scale_factors, 1)),
                               WeightedSumCell(n + 3, n + 1, n + 2)},
              result |-> n + 3]
        ELSE LET you == CellOf(h, other.constant)
             IN  [heap |-> h \cup {ListCell(n + 1, reactions \o CellOf(h, you.reactions).items),
                                   ListCell(n + 2, scale_factors
                                                      \o CellOf(h, you.scale_factors).items),
                                   WeightedSumCell(n + 3, n + 1, n + 2)},
                  result |-> n + 3]

\* CrossSectionWeightedSum.__mul__ and __rmul__
RefWeightedSumMul(h, self, other) ==
    LET n == Cardinality(h)
        me == CellOf(h, self)
        reactions == CellOf(h, me.reactions).items
        scale_factors == CellOf(h, me.scale_factors).items
    IN  [heap |-> h \cup {ListCell(n + 1, reactions),
                          ListCell(n + 2, [i \in 1..Len(scale_factors) |->
                                              other.constant * scale_factors[i]]),
                          WeightedSumCell(n + 3, n + 1, n + 2)},
         result |-> n + 3]

\* the cross section a cell stands for
RECURSIVE Deref(_, _)
Deref(h, id) ==
    LET c == CellOf(h, id)
    IN  IF c.kind = "CrossSectionWeightedSum"
        THEN CrossSectionWeightedSum(
                 [i \in 1..Len(CellOf(h, c.reactions).items) |->
                     Deref(h, CellOf(h, c.reactions).items[i])],
                 TRUE, CellOf(h, c.scale_factors).items)
        ELSE IF c.kind = "ConstantCrossSection" THEN ConstantCrossSection(c.constant)
        ELSE Resonance(c.constant, 2)

\* x + y, y an object or a number
RefAdd(x, y) ==
    LET done == IF CellOf(heap, x).kind = "CrossSectionWeightedSum"
                THEN RefWeightedSumAdd(heap, x, y)
                ELSE RefCrossSectionAdd(heap, x, y)
    IN  /\ Cardinality(ObjectIds(heap)) < MaxObjs
        /\ heap' = done.heap
        /\ last' = Op("__add__", Ref(x), y, <<>>, <<>>, Ref(done.result), NoOutcome)

\* x * k
RefMul(x, k) ==
    LET done == IF CellOf(heap, x).kind = "CrossSectionWeightedSum"
                THEN RefWeightedSumMul(heap, x, Number(k))
                ELSE RefCrossSectionMul(heap, x, Number(k))
    IN  /\ Cardinality(ObjectIds(heap)) < MaxObjs
        /\ heap' = done.heap
        /\ last' = Op("__mul__", Ref(x), Number(k), <<>>, <<>>, Ref(done.result), NoOutcome)

\* x(E)
RefEvaluate(x, E) ==
    /\ last' = Op("__call__", Ref(x), None, <<>>, <<Number(E)>>, None,
                  Call(Deref(heap, x), E))
    /\ UNCHANGED heap

\* x.equidistant_probability_grid(limits, n)
RefProbabilityGrid(x, limits, n) ==
    /\ last' = Op("equidistant_probability_grid", Ref(x), None, <<>>,
                  <<limits, Number(n)>>, None,
                  ProbabilityGrid(Deref(heap, x), limits, n, "converged"))
    /\ UNCHANGED heap

InitRef ==
    /\ heap = {AtomCell(1, "ConstantCrossSection", 5), AtomCell(2, "Resonance", 8)}
    /\ last = NoOp

NextRef ==
    \/ \E x, y \in ObjectIds(heap) : RefAdd(x, Ref(y))
    \/ \E x \in ObjectIds(heap), c \in Numbers : RefAdd(x, Number(c))
    \/ \E x \in ObjectIds(heap), k \in Scalars : RefMul(x, k)
    \/ \E x \in ObjectIds(heap), E \in Energies : RefEvaluate(x, E)
    \/ \E x \in ObjectIds(heap), limits \in TupleLimits(AlgebraLimitValues), n \in GridSizes :
          RefProbabilityGrid(x, limits, n)

SpecRef == InitRef /\ [][NextRef]_vars

(***************************************************************************)
(* ries/integration                                                        *)
(***************************************************************************)
Callable(name) == [Blank EXCEPT !.kind = "callable", !.probability_distribution = name]

\* f(x) for an array x: stagger of tests/test_integration.py sets every
\* second entry, by position, to 1; ones is constant; descending is 3 - 2 x
ApplyCallable(f, x) ==
    [i \in 1..Len(x) |->
        IF f.probability_distribution = "stagger" THEN i % 2
        ELSE IF f.probability_distribution = "ones" THEN 1
        ELSE 3 - 2 * x[i]]

\* numpy.roll(x, 1)
Roll(x) == [i \in 1..Len(x) |-> x[((i - 2) % Len(x)) + 1]]

Min(a, b) == IF a <= b THEN a ELSE b

Max(a, b) == IF a >= b THEN a ELSE b

\* numpy.sum
RECURSIVE NpSum(_, _)
NpSum(a, i) == IF i > Len(a) THEN 0 ELSE a[i] + NpSum(a, i + 1)

\* a darboux that pairs each value with the step before it
DarbouxFn_StepBefore(f_or_fx, x) ==
    LET dx == [i \in 1..Len(x) |-> x[i] - Roll(x)[i]]
        fx == IF f_or_fx.kind = "callable" THEN ApplyCallable(f_or_fx, x)
              ELSE f_or_fx.items
        lower_sum == NpSum([i \in 1..(Len(fx) - 1) |-> Min(fx[i], fx[i + 1]) * dx[i]], 1)
        upper_sum == NpSum([i \in 1..(Len(fx) - 1) |-> Max(fx[i], fx[i + 1]) * dx[i]], 1)
    IN  Return(Tuple(lower_sum, Abs(upper_sum - lower_sum)))

\* darboux(f_or_fx, x)
DarbouxFn(f_or_fx, x) ==
    LET diff == [i \in 1..Len(x) |-> x[i] - Roll(x)[i]]
        dx == [i \in 1..(Len(x) - 1) |-> diff[i + 1]]
        fx == IF f_or_fx.kind = "callable" THEN ApplyCallable(f_or_fx, x)
              ELSE f_or_fx.items
        row0 == [i \in 1..(Len(fx) - 1) |-> fx[i]]
        row1 == [i \in 1..(Len(fx) - 1) |-> fx[i + 1]]
        lower_sum == NpSum([i \in 1..(Len(fx) - 1) |-> Min(row0[i], row1[i]) * dx[i]], 1)
        upper_sum == NpSum([i \in 1..(Len(fx) - 1) |-> Max(row0[i], row1[i]) * dx[i]], 1)
    IN  IF Len(fx) = 0 THEN Raise("ValueError")
        ELSE Return(Tuple(lower_sum, Abs(upper_sum - lower_sum)))

\* darboux(f_or_fx, x), applied to the arguments drawn at the start
Darboux(f_or_fx, x) ==
    /\ last.op = "input"
    /\ last.args = <<f_or_fx, Array(x)>>
    /\ last' = Op("darboux", None, None, <<>>, <<f_or_fx, Array(x)>>, None,
                  DarbouxFn(f_or_fx, x))
    /\ UNCHANGED heap

\* the grids of at most MaxPoints points
Grids == UNION {[1..n -> GridValues] : n \in 1..MaxPoints}

\* the arguments of one call of darboux: a callable, or the values of a
\* function on the grid, and the grid
DarbouxArguments ==
    {<<Callable(f), Array(x)>> : f \in Callables, x \in Grids}
    \cup UNION {{<<Array(fx), Array(x)>> : fx \in [1..Len(x) -> FunctionValues]}
                   : x \in Grids}

InitDarboux ==
    /\ heap = {}
    /\ last \in {Op("input", None, None, <<>>, a, None, NoOutcome) : a \in DarbouxArguments}

\* darboux with a callable, darboux with values
NextDarboux ==
    \/ /\ last.op = "input"
       /\ last.args[1].kind = "callable"
       /\ Darboux(last.args[1], last.args[2].items)
    \/ /\ last.op = "input"
       /\ last.args[1].kind = "ndarray"
       /\ Darboux(last.args[1], last.args[2].items)

SpecDarboux == InitDarboux /\ [][NextDarboux]_vars

\* a Python list of integration limits, flattened
List(items) == [Blank EXCEPT !.kind = "list", !.items = items]

\* the integer square root, for numpy.sqrt
ISqrt(n) == CHOOSE r \in 0..n : r * r <= n /\ (r + 1) * (r + 1) > n

\* the product of the widths of the ranges lo, hi, lo, hi, ... from range i on
RECURSIVE Volume(_, _)
Volume(ranges, i) ==
    IF 2 * i > Len(ranges) THEN 1
    ELSE (ranges[2 * i] - ranges[2 * i - 1]) * Volume(ranges, i + 1)

\* scipy.integrate.nquad(f, ranges) for the f of the tests, constant 1: the
\* integral is the volume; the error estimate is a value that depends on
\* the ranges
Nquad(ranges) ==
    <<Volume(ranges, 1), 1 + Abs(ranges[2] - ranges[1]) + Len(ranges)>>

\* the loop of quad_partition from sub-interval i on
RECURSIVE QuadPartitionLoop(_, _, _, _, _, _)
QuadPartitionLoop(x0, x1_to_xn_minus_1, i, integral, uncertainty_estimate, calls) ==
    IF i > Len(x0) - 1
    THEN [integral |-> integral, uncertainty_estimate |-> uncertainty_estimate,
          calls |-> calls]
    ELSE LET ranges == <<x0[i], x0[i + 1]>> \o x1_to_xn_minus_1
             nquad_result == Nquad(ranges)
         IN  QuadPartitionLoop(x0, x1_to_xn_minus_1, i + 1,
                               integral + nquad_result[1],
                               uncertainty_estimate + nquad_result[2] * nquad_result[2],
                               Append(calls, List(ranges)))

\* the limits quad_partition works with: x1_to_xn_minus_1 or []
LimitsOrEmpty(x1_to_xn_minus_1) ==
    IF x1_to_xn_minus_1 = None \/ x1_to_xn_minus_1.items = <<>>
    THEN <<>>
    ELSE x1_to_xn_minus_1.items

\* a quad_partition that adds the error estimates up without squaring them
QuadPartitionFn_ErrorsAdded(x0, x1_to_xn_minus_1) ==
    LET done == QuadPartitionLoop(x0, LimitsOrEmpty(x1_to_xn_minus_1), 1, 0, 0, <<>>)
        added == NpSum([i \in 1..Len(done.calls) |-> Nquad(done.calls[i].items)[2]], 1)
    IN  [calls |-> done.calls, outcome |-> Return(Tuple(done.integral, added))]

\* quad_partition(f, x0, x1_to_xn_minus_1): the calls of nquad it made and
\* what it returns
QuadPartitionFn(x0, x1_to_xn_minus_1) ==
    LET done == QuadPartitionLoop(x0, LimitsOrEmpty(x1_to_xn_minus_1), 1, 0, 0, <<>>)
    IN  [calls |-> done.calls,
         outcome |-> Return(Tuple(done.integral, ISqrt(done.uncertainty_estimate)))]

\* quad_partition(f, x0, x1_to_xn_minus_1), applied to the arguments drawn
\* at the start
QuadPartition(x0, x1_to_xn_minus_1) ==
    /\ last.op = "input"
    /\ last.args = <<Array(x0), x1_to_xn_minus_1>>
    /\ last' = Op("quad_partition", None, None, QuadPartitionFn(x0, x1_to_xn_minus_1).calls,
                  <<Array(x0), x1_to_xn_minus_1>>, None,
                  QuadPartitionFn(x0, x1_to_xn_minus_1).outcome)
    /\ UNCHANGED heap

\* the partitions of at most MaxPoints points, the empty one included
Partitions == UNION {[1..n -> GridValues] : n \in 0..MaxPoints}

\* the arguments of one call: a partition, and the limits of the additional
\* dimensions as a list or left out
QuadArguments ==
    {<<Array(x0), List(l)>> : x0 \in Partitions, l \in AdditionalLimits}
    \cup {<<Array(x0), None>> : x0 \in Partitions}

InitQuad ==
    /\ heap = {}
    /\ last \in {Op("input", None, None, <<>>, a, None, NoOutcome) : a \in QuadArguments}

\* quad_partition with limits, quad_partition without
NextQuad ==
    \/ /\ last.op = "input"
       /\ last.args[2] # None
       /\ QuadPartition(last.args[1].items, last.args[2])
    \/ /\ last.op = "input"
       /\ last.args[2] = None
       /\ QuadPartition(last.args[1].items, None)

SpecQuad == InitQuad /\ [][NextQuad]_vars

(***************************************************************************)
(* ries/constituents and ries/resonance/photoabsorption_cross_section.py.  *)
(* A dict is the sequence of its <<key, value>> items in insertion order.  *)
(* Widths are integers, abundances are hundredths, a branching ratio is    *)
(* counted in thousandths.                                                 *)
(***************************************************************************)
\* key in d
DictHas(d, key) == \E i \in 1..Len(d) : d[i][1] = key

\* d[key] of a key that is in d
DictGet(d, key) == d[CHOOSE i \in 1..Len(d) : d[i][1] = key][2]

\* d[key] = value
DictSet(d, key, value) ==
    IF DictHas(d, key)
    THEN [i \in 1..Len(d) |-> IF d[i][1] = key THEN <<key, value>> ELSE d[i]]
    ELSE Append(d, <<key, value>>)

\* the keys of d in iteration order
DictKeys(d) == [i \in 1..Len(d) |-> d[i][1]]

RECURSIVE SumWidths(_, _)
\* sum([partial_widths[state] for state in partial_widths]) from item i on
SumWidths(partial_widths, i) ==
    IF i > Len(partial_widths) THEN 0
    ELSE partial_widths[i][2] + SumWidths(partial_widths, i + 1)

\* GroundState.__init__
GroundState(J_pi, two_J) ==
    [kind |-> "GroundState", J_pi |-> J_pi, two_J |-> two_J,
     excitation_energy |-> 0]

\* State.__init__: the total width is summed once, here
State(J_pi, two_J, excitation_energy, partial_widths) ==
    [kind |-> "State", J_pi |-> J_pi, two_J |-> two_J,
     excitation_energy |-> excitation_energy,
     partial_widths |-> partial_widths,
     width |-> SumWidths(partial_widths, 1)]

\* Isotope.__init__
Isotope(AX, ground_state, excited_states) ==
    [kind |-> "Isotope", AX |-> AX, ground_state |-> ground_state,
     excited_states |-> excited_states]

\* Element.__init__
Element(X, isotopes, abundances) ==
    [kind |-> "Element", X |-> X, isotopes |-> isotopes,
     abundances |-> abundances]

\* (pi hbar c)^2 in hundreds of MeV^2 fm^2
EnergyIntegratedCrossSectionConstant == 3843

\* Resonance.get_final_state_branching_ratio taking the branch of no final
\* state whatever the final state is
GetFinalStateBranchingRatio_AlwaysOne(intermediate_state, final_state) ==
    Return(Number(1000))

\* Resonance.get_final_state_branching_ratio, in thousandths
GetFinalStateBranchingRatio(intermediate_state, final_state) ==
    IF final_state = None THEN Return(Number(1000))
    ELSE IF ~DictHas(intermediate_state.partial_widths, final_state.J_pi)
    THEN Raise("KeyError")
    ELSE IF intermediate_state.width = 0 THEN Raise("ZeroDivisionError")
    ELSE Return(Number(
             (1000 * DictGet(intermediate_state.partial_widths, final_state.J_pi))
                 \div intermediate_state.width))

\* Resonance.get_energy_integrated_cross_section with the statistical factor
\* (two_J + 1) / (two_J_0 + 1) of get_statistical_factor
GetEnergyIntegratedCrossSection(initial_state, intermediate_state, resonance_energy, ratio) ==
    IF ~DictHas(intermediate_state.partial_widths, initial_state.J_pi)
    THEN Raise("KeyError")
    ELSE Return(Number(
             ((EnergyIntegratedCrossSectionConstant
                   \div (resonance_energy * resonance_energy))
                  * (intermediate_state.two_J + 1)
                  * DictGet(intermediate_state.partial_widths, initial_state.J_pi)
                  * ratio)
             \div ((initial_state.two_J + 1) * 1000)))

\* the rest of a computation after a call: an exception of the call ends
\* the computation, a returned value is what it continues with
Then(outcome, Continue(_)) ==
    IF outcome.exc # "none" THEN outcome ELSE Continue(outcome.val)

\* the attributes Resonance.__init__ and BreitWigner.__init__ set
ResonanceObject(ResonanceModel, initial_state, intermediate_state, final_state, ratio, eics) ==
    (IF ResonanceModel = "BreitWigner"
     THEN BreitWigner(intermediate_state.excitation_energy
                          - initial_state.excitation_energy,
                      eics, intermediate_state.width)
     ELSE Resonance(intermediate_state.excitation_energy
                        - initial_state.excitation_energy,
                    eics))
    @@ [initial_state |-> initial_state,
        intermediate_state |-> intermediate_state,
        final_state |-> final_state,
        final_state_branching_ratio |-> ratio]

\* the constructors ResonanceModel(initial_state, intermediate_state,
\* final_state) of Resonance and of BreitWigner
ResonanceInit(ResonanceModel, initial_state, intermediate_state, final_state) ==
    Then(GetFinalStateBranchingRatio(intermediate_state, final_state),
         LAMBDA ratio :
             Then(GetEnergyIntegratedCrossSection(
                      initial_state, intermediate_state,
                      intermediate_state.excitation_energy
                          - initial_state.excitation_energy,
                      ratio.constant),
                  LAMBDA eics :
                      Return(ResonanceObject(
                                 ResonanceModel, initial_state, intermediate_state,
                                 final_state, ratio.constant, eics.constant))))

RECURSIVE GetResonancesLoop(_, _, _, _)
\* the loop of PhotoabsorptionCrossSectionIsotope.get_resonances from excited
\* state i on
GetResonancesLoop(isotope, ResonanceModel, i, resonances) ==
    IF i > Len(isotope.excited_states) THEN Return(resonances)
    ELSE IF ~DictHas(isotope.excited_states[i][2].partial_widths,
                     isotope.ground_state.J_pi)
    THEN GetResonancesLoop(isotope, ResonanceModel, i + 1, resonances)
    ELSE Then(ResonanceInit(ResonanceModel, isotope.ground_state,
                            isotope.excited_states[i][2], None),
              LAMBDA resonance :
                  GetResonancesLoop(
                      isotope, ResonanceModel, i + 1,
                      DictSet(resonances, isotope.excited_states[i][2].J_pi,
                              resonance)))

\* PhotoabsorptionCrossSectionIsotope.get_resonances
GetResonances(isotope, ResonanceModel) ==
    GetResonancesLoop(isotope, ResonanceModel, 1, <<>>)

\* PhotoabsorptionCrossSectionIsotope.__init__
PhotoabsorptionCrossSectionIsotope(isotope, ResonanceModel) ==
    Then(GetResonances(isotope, ResonanceModel),
         LAMBDA resonances :
             Return([kind |-> "PhotoabsorptionCrossSectionIsotope",
                     isotope |-> isotope, ResonanceModel |-> ResonanceModel,
                     resonances |-> resonances]))

RECURSIVE IsotopeCallLoop(_, _, _, _)
\* the loop of PhotoabsorptionCrossSectionIsotope.__call__ from resonance i on
IsotopeCallLoop(self, energy, i, cross_section) ==
    IF i > Len(self.resonances) THEN Return(Number(cross_section))
    ELSE Then(Call(DictGet(self.resonances, DictKeys(self.resonances)[i]), energy),
              LAMBDA value :
                  IsotopeCallLoop(self, energy, i + 1,
                                  cross_section + value.constant))

\* PhotoabsorptionCrossSectionIsotope.__call__
IsotopeCall(self, energy) == IsotopeCallLoop(self, energy, 1, 0)

RECURSIVE GetPhotoabsorptionCrossSectionsLoop(_, _, _, _)
\* the loop of PhotoabsorptionCrossSectionElement
\* .get_photoabsorption_cross_sections from isotope i on
GetPhotoabsorptionCrossSectionsLoop(element, resonance_model, i, cross_sections) ==
    IF i > Len(element.isotopes) THEN Return(cross_sections)
    ELSE IF ~DictHas(resonance_model, DictKeys(element.isotopes)[i])
    THEN Raise("KeyError")
    ELSE Then(PhotoabsorptionCrossSectionIsotope(
                  DictGet(element.isotopes, DictKeys(element.isotopes)[i]),
                  DictGet(resonance_model, DictKeys(element.isotopes)[i])),
              LAMBDA aggregation :
                  GetPhotoabsorptionCrossSectionsLoop(
                      element, resonance_model, i + 1,
                      DictSet(cross_sections, aggregation.isotope.AX, aggregation)))

\* PhotoabsorptionCrossSectionElement.__init__
PhotoabsorptionCrossSectionElement(element, resonance_model) ==
    Then(GetPhotoabsorptionCrossSectionsLoop(element, resonance_model, 1, <<>>),
         LAMBDA cross_sections :
             Return([kind |-> "PhotoabsorptionCrossSectionElement",
                     element |-> element, resonance_model |-> resonance_model,
                     photoabsorption_cross_sections |-> cross_sections]))

RECURSIVE ElementCallLoop(_, _, _, _)
\* the loop of PhotoabsorptionCrossSectionElement.__call__ from isotope i on
ElementCallLoop(self, energy, i, cross_section) ==
    IF i > Len(self.element.isotopes) THEN Return(Number(cross_section))
    ELSE IF ~DictHas(self.element.abundances, DictKeys(self.element.isotopes)[i])
    THEN Raise("KeyError")
    ELSE IF ~DictHas(self.photoabsorption_cross_sections,
                     DictKeys(self.element.isotopes)[i])
    THEN Raise("KeyError")
    ELSE Then(IsotopeCall(DictGet(self.photoabsorption_cross_sections,
                                  DictKeys(self.element.isotopes)[i]),
                          energy),
              LAMBDA value :
                  ElementCallLoop(
                      self, energy, i + 1,
                      cross_section
                          + DictGet(self.element.abundances,
                                    DictKeys(self.element.isotopes)[i])
                                * value.constant))

\* PhotoabsorptionCrossSectionElement.__call__
ElementCall(self, energy) == ElementCallLoop(self, energy, 1, 0)

\* the states of the isotopes: a ground state and excited states that decay
\* to it with a nonzero width, with zero width, or not at all
ExcitedStates ==
    <<State("1/2^-_1", 1, 8, <<<<"3/2^-_1", 2>>>>),
      State("5/2^-_1", 5, 8, <<<<"3/2^-_1", 0>>, <<"1/2^-_1", 4>>>>),
      State("3/2^-_2", 3, 30, <<<<"3/2^-_1", 6>>, <<"1/2^-_1", 2>>>>),
      State("7/2^-_1", 7, 30, <<<<"5/2^-_1", 2>>>>)>>

\* tests/boron.py: the only excited state has the partial width 0.0
B10 ==
    Isotope("10B", GroundState("3^+_1", 6),
            <<<<"1^+_1", State("1^+_1", 2, 8, <<<<"3^+_1", 0>>>>)>>>>)

\* an isotope with the excited states of the indices in S, keyed by J_pi
B11(S) ==
    Isotope("11B", GroundState("3/2^-_1", 3),
            [i \in 1..Cardinality(S) |->
                LET k == CHOOSE j \in S : Cardinality({l \in S : l < j}) = i - 1
                IN  <<ExcitedStates[k].J_pi, ExcitedStates[k]>>])

Isotopes == {B10} \cup {B11(S) : S \in SUBSET (1..Len(ExcitedStates))}

\* tests/boron.py: the 5/2^- state of 11B at 4.44498 MeV, which decays to the
\* ground state only
B11Excited4445 == State("5/2^-_1", 5, 8, <<<<"3/2^-_1", 2>>>>)

\* the arguments of a resonance constructor: the final state is left out,
\* is the ground state, or is an excited state; a Cauchy shape needs a
\* nonzero total width
ResonanceArguments ==
    {<<B11({}).ground_state, ExcitedStates[i], f, m>> :
        i \in 1..Len(ExcitedStates),
        f \in {None, B11({}).ground_state, ExcitedStates[1], ExcitedStates[4]},
        m \in {"Resonance", "BreitWigner"}}
    \cup {<<B10.ground_state, B10.excited_states[1][2], f, "Resonance">> :
            f \in {None, B10.ground_state}}
    \cup {<<B11({}).ground_state, B11Excited4445, None, m>> :
            m \in {"Resonance", "BreitWigner"}}

\* an isotope and the resonance class of its aggregation
IsotopeArguments ==
    {<<B10, "Resonance">>}
    \cup {<<b, m>> : b \in Isotopes \ {B10}, m \in {"Resonance", "BreitWigner"}}

\* boron of two isotopes, its mappings keyed by AX or by mass number, and
\* the resonance classes under the same keys
ElementArguments ==
    {<<Element("B", <<<<k[1], B10>>, <<k[2], a[1]>>>>,
               <<<<k[1], 20>>, <<k[2], 80>>>>),
       <<<<k[1], "Resonance">>, <<k[2], a[2]>>>>>> :
        k \in {<<"10B", "11B">>, <<"10", "11">>}, a \in IsotopeArguments \ {<<B10, "Resonance">>}}

\* the object a constructor call returned is allocated; a constructor that
\* raised leaves nothing behind
Construct(class, args, outcome) ==
    /\ heap' = IF outcome.exc = "none" THEN {outcome.val} ELSE heap
    /\ last' = Op(class, None, None, <<>>, args, outcome.val, outcome)

\* Resonance(...) or BreitWigner(...)
ConstructResonance(initial_state, intermediate_state, final_state, ResonanceModel) ==
    Construct("Resonance", <<initial_state, intermediate_state, final_state>>,
              ResonanceInit(ResonanceModel, initial_state, intermediate_state,
                            final_state))

\* PhotoabsorptionCrossSectionIsotope(isotope, ResonanceModel, ())
ConstructIsotope(isotope, ResonanceModel) ==
    Construct("PhotoabsorptionCrossSectionIsotope", <<isotope>>,
              PhotoabsorptionCrossSectionIsotope(isotope, ResonanceModel))

\* PhotoabsorptionCrossSectionElement(element, resonance_model, ...)
ConstructElement(element, resonance_model) ==
    Construct("PhotoabsorptionCrossSectionElement", <<element>>,
              PhotoabsorptionCrossSectionElement(element, resonance_model))

\* x(energy) for a resonance or an aggregation x
CallPhotoabsorption(x, energy) ==
    /\ x \in heap
    /\ last' = Op("__call__", x, None, <<>>, <<Number(energy)>>, None,
                  IF x.kind = "PhotoabsorptionCrossSectionIsotope"
                  THEN IsotopeCall(x, energy)
                  ELSE IF x.kind = "PhotoabsorptionCrossSectionElement"
                  THEN ElementCall(x, energy)
                  ELSE Call(x, energy))
    /\ UNCHANGED heap

\* the arguments of the one constructor call of a behaviour
InitPhoto ==
    /\ heap = {}
    /\ last \in {Op("input", None, None, <<>>, a, None, NoOutcome) :
                    a \in ResonanceArguments \cup IsotopeArguments \cup ElementArguments}

NextPhoto ==
    \/ /\ last.op = "input"
       /\ Len(last.args) = 4
       /\ ConstructResonance(last.args[1], last.args[2], last.args[3], last.args[4])
    \/ /\ last.op = "input"
       /\ Len(last.args) = 2
       /\ last.args[1].kind = "Isotope"
       /\ ConstructIsotope(last.args[1], last.args[2])
    \/ /\ last.op = "input"
       /\ Len(last.args) = 2
       /\ last.args[1].kind = "Element"
       /\ ConstructElement(last.args[1], last.args[2])
    \/ \E x \in heap, energy \in Energies : CallPhotoabsorption(x, energy)

SpecPhoto == InitPhoto /\ [][NextPhoto]_vars

(***************************************************************************)
(* ries/resonance/debye_model.py.  Temperatures are integers (K).          *)
(***************************************************************************)
Temperatures == {0, 1, 100, 1000}

DebyeTemperatures == {0, 100, 1000}

\* a scalar temperature, or an array of one or two
TemperatureArguments ==
    {Number(T) : T \in Temperatures}
    \cup {Array(<<T>>) : T \in Temperatures}
    \cup {Array(<<T[1], T[2]>>) : T \in Temperatures \X Temperatures}

\* a floating-point result that is not a number
NaN == [Blank EXCEPT !.kind = "nan"]

\* 3 (T / T_D)^3 T times the integral up to T_D / T, on the lattice: the
\* low-temperature limit 3/8 T_D or the high-temperature limit T
DebyeIntegral(T, T_D) == IF 8 * T >= 3 * T_D THEN T ELSE (3 * T_D) \div 8

\* the function with numpy floats: a division by zero warns and gives inf
\* or nan, and the product with the integral up to inf is 0 or nan
\* (divergent: quad returned inf)
EffectiveTemperatureNumpy(T, T_D, divergent) ==
    IF T_D = 0
    THEN Warned(<<"RuntimeWarning">>, Return(NaN))
    ELSE IF T = 0
    THEN Warned(<<"RuntimeWarning">>,
                Return(IF divergent THEN NaN ELSE Number(0)))
    ELSE Return(Number(DebyeIntegral(T, T_D)))

\* the function with Python floats, where 0.0 divided by 0.0 is nan
EffectiveTemperaturePython_NaN(T, T_D) ==
    IF T_D = 0 \/ T = 0 THEN Return(NaN) ELSE Return(Number(DebyeIntegral(T, T_D)))

\* the function with Python floats: T / T_D and T_D / T raise on a zero
\* divisor
EffectiveTemperaturePython(T, T_D) ==
    IF T_D = 0 THEN Raise("ZeroDivisionError")
    ELSE IF T = 0 THEN Raise("ZeroDivisionError")
    ELSE Return(Number(DebyeIntegral(T, T_D)))

RECURSIVE VectorizeLoop(_, _, _, _)
\* the element-wise calls of the vectorized function from entry i on; numpy
\* hands the entries over as Python floats
VectorizeLoop(T, T_D, i, values) ==
    IF i > Len(T) THEN Return(Array(values))
    ELSE Then(EffectiveTemperaturePython(T[i], T_D),
              LAMBDA value :
                  VectorizeLoop(T, T_D, i + 1, Append(values, value.constant)))

\* np.vectorize(f)(T, T_D): a first call with the first entries as numpy
\* floats finds the type of the result, which is thrown away; then the
\* element-wise calls
Vectorize(T, T_D, divergent) ==
    Then(EffectiveTemperatureNumpy(T[1], T_D, divergent),
         LAMBDA discarded :
             Warned(EffectiveTemperatureNumpy(T[1], T_D, divergent).warnings,
                    VectorizeLoop(T, T_D, 1, <<>>)))

\* the outcome of a call with a scalar is the one entry of the outcome for
\* the array of that scalar
ScalarOutcome(outcome) ==
    IF outcome.exc # "none" THEN outcome
    ELSE [outcome EXCEPT !.val = Number(outcome.val.items[1])]

\* effective_temperature_debye_approximation(T, T_D)
EffectiveTemperatureDebyeApproximation(T, T_D, divergent) ==
    /\ last.op = "input"
    /\ last.args = <<T, Number(T_D)>>
    /\ last' = Op("effective_temperature_debye_approximation", None, None, <<>>,
                  last.args, None,
                  IF T.kind = "number"
                  THEN ScalarOutcome(Vectorize(<<T.constant>>, T_D, divergent))
                  ELSE Vectorize(T.items, T_D, divergent))
    /\ UNCHANGED heap

InitDebye ==
    /\ heap = {}
    /\ last \in {Op("input", None, None, <<>>, <<T, Number(T_D)>>, None, NoOutcome) :
                    T \in TemperatureArguments, T_D \in DebyeTemperatures}

\* a call with a scalar, a call with an array; the integral up to inf is
\* finite or is inf
NextDebye ==
    \/ \E divergent \in BOOLEAN :
          /\ last.args[1].kind = "number"
          /\ EffectiveTemperatureDebyeApproximation(
                 last.args[1], last.args[2].constant, divergent)
    \/ \E divergent \in BOOLEAN :
          /\ last.args[1].kind = "ndarray"
          /\ EffectiveTemperatureDebyeApproximation(
                 last.args[1], last.args[2].constant, divergent)

SpecDebye == InitDebye /\ [][NextDebye]_vars

(***************************************************************************)
(* Properties of the cross-section algebra (Spec, SpecSum)                 *)
(***************************************************************************)
IsAddition == last.op \in {"__add__", "__radd__"}

IsScaling == last.op \in {"__mul__", "__rmul__"}

\* the value of x at E, for an x whose evaluation returns
ValueAt(x, E) == Call(x, E).val.constant

\* C1: the object returned by a + b, a and b cross sections, evaluates at
\* every energy E to a(E) + b(E)
C1_Additivity ==
    (last.op = "__add__" /\ ~IsNumber(last.other)) =>
        \A E \in Energies :
            Call(last.result, E)
                = Return(Number(ValueAt(last.self, E) + ValueAt(last.other, E)))

\* a resonance plus a constant: two different cross sections, the sum
\* evaluated on the resonance is the sum of both values
C1_Witness ==
    /\ last.op = "__add__"
    /\ last.self.kind = "Resonance"
    /\ last.other.kind = "ConstantCrossSection"
    /\ ValueAt(last.self, 8) = 2000
    /\ ValueAt(last.result, 8) = 2005

\* C2: the object returned by k * a or a * k evaluates at every energy E to
\* k * a(E), for a plain cross section a and for a weighted sum a; hence
\* (a * k1 * k2)(E) = a(E) * k1 * k2
C2_Scaling ==
    IsScaling =>
        \A E \in Energies :
            Call(last.result, E)
                = Return(Number(last.other.constant * ValueAt(last.self, E)))

\* a * k1 * k2: the scaled operand is itself the result of one scaling
C2_Witness ==
    /\ last.op = "__mul__"
    /\ IsWeightedSum(last.self)
    /\ last.self.reactions = <<Resonance(8, 2)>>
    /\ last.self.scale_factors = <<2>>
    /\ ValueAt(last.result, 8) = 2000 * 2 * 2

\* the constituents an operand contributes to a flattened sum
Constituents(x) ==
    IF IsWeightedSum(x) THEN x.reactions
    ELSE IF IsNumber(x) THEN <<ConstantCrossSection(x.constant)>>
    ELSE <<x>>

\* C3: the result of every addition is a weighted sum whose reactions list
\* is the concatenation of the operands' constituent lists and holds no
\* weighted sum as an element
C3_Flattening ==
    IsAddition =>
        /\ IsWeightedSum(last.result)
        /\ last.result.reactions = Constituents(last.self) \o Constituents(last.other)
        /\ \A i \in 1..Len(last.result.reactions) :
               ~IsWeightedSum(last.result.reactions[i])

\* the (reaction, scale factor) pairs of a weighted sum
Pairs(x) == [i \in 1..Len(x.reactions) |-> <<x.reactions[i], x.scale_factors[i]>>]

\* the pairs an operand of + contributes: its own pairs when the code merges
\* it, else itself (a number as a constant cross section) with factor 1
OperandPairs(x, merged) ==
    IF merged THEN Pairs(x)
    ELSE IF IsNumber(x) THEN <<<<ConstantCrossSection(x.constant), 1>>>>
    ELSE <<<<x, 1>>>>

RECURSIVE SameLengths(_)
SameLengths(x) ==
    IsWeightedSum(x) =>
        /\ Len(x.reactions) = Len(x.scale_factors)
        /\ \A i \in 1..Len(x.reactions) : SameLengths(x.reactions[i])

\* C4: every weighted sum built by +, numeric + and scalar * has as many
\* scale factors as reactions, and each operation keeps every scale factor
\* with its reaction: the pairs of a sum are the operands' pairs in order,
\* the pairs of a product are the operand's pairs with the factor multiplied
C4_LengthsAndPairs ==
    /\ \A x \in heap : SameLengths(x)
    /\ IsAddition =>
           Pairs(last.result)
               = OperandPairs(last.self, IsWeightedSum(last.self))
                 \o OperandPairs(last.other,
                                 IsWeightedSum(last.self) /\ IsWeightedSum(last.other))
    /\ IsScaling =>
           Pairs(last.result)
               = [i \in 1..Len(Constituents(last.self)) |->
                     <<Constituents(last.self)[i],
                       last.other.constant
                         * OperandPairs(last.self, IsWeightedSum(last.self))[i][2]>>]

\* (2 * resonance) + constant: the factor 2 stays with the resonance, the
\* constant comes in with factor 1
C4_Witness ==
    /\ last.op = "__add__"
    /\ last.self = CrossSectionWeightedSum(<<Resonance(8, 2)>>, TRUE, <<2>>)
    /\ last.other = ConstantCrossSection(5)
    /\ last.result.reactions = <<Resonance(8, 2), ConstantCrossSection(5)>>
    /\ last.result.scale_factors = <<2, 1>>

RECURSIVE SumOfValues(_, _, _)
SumOfValues(list, E, i) ==
    IF i > Len(list) THEN 0 ELSE ValueAt(list[i], E) + SumOfValues(list, E, i + 1)

\* C5: s + c and c + s, c a number, append ConstantCrossSection(c) with
\* scale factor 1, so both evaluate to s(E) + c; sum(list), seeded with the
\* integer 0, evaluates to the sum of the members' values
C5_NumericAutoWrap ==
    /\ (IsAddition /\ IsNumber(last.other)) =>
           /\ Pairs(last.result)[Len(last.result.reactions)]
                  = <<ConstantCrossSection(last.other.constant), 1>>
           /\ \A E \in Energies :
                  Call(last.result, E)
                      = Return(Number(ValueAt(last.self, E) + last.other.constant))
    /\ last.op = "sum" =>
           \A E \in Energies :
               Call(last.result, E) = Return(Number(SumOfValues(last.list, E, 1)))

\* sum([resonance, constant])
C5_Witness ==
    /\ last.op = "sum"
    /\ last.list = <<Resonance(8, 2), ConstantCrossSection(5)>>
    /\ ValueAt(last.result, 8) = 2005

\* C7: the probability grid of a weighted sum whose constituents all return
\* a grid is the union of the constituents' grids for the same limits and n:
\* every point of a constituent grid, no other point, strictly ascending
C7_GridIsUnion ==
    (last.op = "equidistant_probability_grid" /\ IsWeightedSum(last.self)) =>
        LET limits == last.args[1]
            n == last.args[2].constant
            part(i) == ProbabilityGrid(last.self.reactions[i], limits, n, last.newton)
            parts == 1..Len(last.self.reactions)
            grid == last.outcome.val.items
        IN  (\A i \in parts : part(i).exc = "none" /\ part(i).val # None) =>
                /\ last.outcome.exc = "none"
                /\ last.outcome.val.kind = "ndarray"
                /\ {grid[k] : k \in 1..Len(grid)}
                       = UNION {{part(i).val.items[k] : k \in 1..Len(part(i).val.items)}
                                    : i \in parts}
                /\ \A k \in 1..(Len(grid) - 1) : grid[k] < grid[k + 1]

\* a constant and a resonance over (0, 30) with 3 points each: the grids
\* 0, 15, 30 and 0, 8, 30 merge into 0, 8, 15, 30
C7_Witness ==
    /\ last.op = "equidistant_probability_grid"
    /\ IsWeightedSum(last.self)
    /\ last.self.reactions = <<ConstantCrossSection(5), Resonance(8, 2)>>
    /\ last.args = <<Tuple(0, 30), Number(3)>>
    /\ last.outcome = Return(Array(<<0, 8, 15, 30>>))

\* C16: evaluation of a cross section of the algebra on an array of n
\* energies returns n values, the i-th the value at the i-th energy
C16_Vectorized ==
    (last.op = "__call__" /\ last.args[1].kind = "ndarray") =>
        LET E == last.args[1].items
        IN  last.outcome = Return(Array([i \in 1..Len(E) |-> ValueAt(last.self, E[i])]))

(***************************************************************************)
(* Properties of the single cross sections (SpecSingle)                    *)
(***************************************************************************)
\* C6: evaluating the abstract CrossSection, or asking it for a probability
\* grid, raises NotImplementedError and returns no value, for every argument
C6_AbstractNotImplemented ==
    (last.op \in {"__call__", "equidistant_probability_grid"}
        /\ last.self.kind = "CrossSection") =>
        /\ last.outcome.exc = "NotImplementedError"
        /\ last.outcome.val = None

C6_Witness ==
    /\ last.op = "equidistant_probability_grid"
    /\ last.self = CrossSection
    /\ last.outcome.exc = "NotImplementedError"

ShapeModels == {"BreitWigner", "Gauss", "PseudoVoigt", "Voigt"}

\* C8: for every shape model, explicit limits (lo, hi) and n >= 2, the
\* probability grid is returned, has n points, starts at lo and ends at hi,
\* however cdf saturates and however the numerical ppf ends
C8_GridEndpoints ==
    (last.op = "equidistant_probability_grid"
        /\ last.self.kind \in ShapeModels
        /\ last.args[1].kind = "tuple"
        /\ last.args[2].constant >= 2) =>
        /\ last.outcome.exc = "none"
        /\ last.outcome.val.kind = "ndarray"
        /\ Len(last.outcome.val.items) = last.args[2].constant
        /\ last.outcome.val.items[1] = last.args[1].items[1]
        /\ last.outcome.val.items[last.args[2].constant] = last.args[1].items[2]

C10_LowerLimitClamped ==
    (last.op = "coverage_interval" /\ last.outcome.exc = "none") =>
        last.outcome.val.items[1] >= 0

\* the positions of a warning in the warnings of the latest operation
WarningPositions(message) ==
    {i \in 1..Len(last.outcome.warnings) : last.outcome.warnings[i] = message}

NegativeWarning == "UserWarning: Unphysical negative lower limit"

InfiniteWarning == "UserWarning: Infinite upper limit"

\* a coverage_interval that returned: one negative-limit warning exactly when
\* the lower limit is negative, one infinite-limit warning exactly when the
\* upper limit is infinite, the negative-limit warning first
CoverageWarnings ==
    LET limits == last.outcome.val.items
    IN  /\ Cardinality(WarningPositions(NegativeWarning))
               = IF limits[1] < 0 THEN 1 ELSE 0
        /\ Cardinality(WarningPositions(InfiniteWarning))
               = IF IsInf(limits[2]) THEN 1 ELSE 0
        /\ \A i \in WarningPositions(NegativeWarning),
              j \in WarningPositions(InfiniteWarning) : i < j

\* C11 as stated: coverage_interval emits exactly one negative-limit warning
\* iff the lower limit is negative and exactly one infinite-limit warning iff
\* the upper limit is infinite, the negative-limit warning first, and no
\* warning at all when neither holds
C11_WarningsAsStated ==
    (last.op = "coverage_interval" /\ last.outcome.exc = "none") =>
        /\ CoverageWarnings
        /\ (last.outcome.val.items[1] >= 0 /\ ~IsInf(last.outcome.val.items[2]))
               => last.outcome.warnings = <<>>

\* C11 amended: the same, but when neither holds the only warning there can
\* be is the fallback warning of the pseudo-Voigt ppf that coverage_interval
\* called; coverage_interval adds none of its own
C11_Warnings ==
    (last.op = "coverage_interval" /\ last.outcome.exc = "none") =>
        /\ CoverageWarnings
        /\ last.outcome.warnings
               = DistributionPpf(last.self, CoverageQuantiles(last.args[1].constant),
                                 last.newton).warnings
                 \o (IF last.outcome.val.items[1] < 0 THEN <<NegativeWarning>> ELSE <<>>)
                 \o (IF IsInf(last.outcome.val.items[2]) THEN <<InfiniteWarning>> ELSE <<>>)

\* full coverage of a Breit-Wigner resonance: both warnings, negative first
C11_Witness ==
    /\ last.op = "coverage_interval"
    /\ last.self.kind = "BreitWigner"
    /\ last.args = <<Number(16)>>
    /\ last.outcome.warnings = <<NegativeWarning, InfiniteWarning>>

\* the linear-combination fallback for the argument of the latest ppf call
FallbackOfLast ==
    LET q == last.args[1]
    IN  IF IsNumber(q)
        THEN Number(PseudoVoigtExpressionPpf(last.self, q.constant))
        ELSE Array([i \in 1..Len(q.items) |->
                       PseudoVoigtExpressionPpf(last.self, q.items[i])])

\* the newton roots for the argument of the latest ppf call
RootsOfLast ==
    LET q == last.args[1]
    IN  IF IsNumber(q)
        THEN Number(NewtonRoot(last.self, q.constant))
        ELSE Array([i \in 1..Len(q.items) |-> NewtonRoot(last.self, q.items[i])])

FallbackWarning == "UserWarning: numerical inversion of the CDF failed"

\* C12: when newton does not converge for every quantile, ppf emits the
\* UserWarning and returns the fallback for every quantile of the call; when
\* it converges for all, ppf returns the roots and emits no warning
C12_PpfFallback ==
    last.op = "ppf" =>
        IF last.newton = "converged"
        THEN last.outcome = Return(RootsOfLast)
        ELSE last.outcome = Warned(<<FallbackWarning>>, Return(FallbackOfLast))

\* C13: for scalar and array input and however newton ends, ppf returns a
\* numeric result, the fallback whenever newton does not report convergence
C13_PpfNeverNone ==
    last.op = "ppf" =>
        /\ last.outcome.exc = "none"
        /\ last.outcome.val # None
        /\ last.newton # "converged" => last.outcome.val = FallbackOfLast

(***************************************************************************)
(* Properties of the integration routines (SpecDarboux, SpecQuad)          *)
(***************************************************************************)
\* the sum over adjacent pairs from pair i on, of the smaller (upper =
\* FALSE) or larger (upper = TRUE) of the two values times the step
RECURSIVE PairSum(_, _, _, _)
PairSum(fx, x, i, upper) ==
    IF i >= Len(x) THEN 0
    ELSE (IF (fx[i] <= fx[i + 1]) = upper THEN fx[i + 1] ELSE fx[i]) * (x[i + 1] - x[i])
         + PairSum(fx, x, i + 1, upper)

\* C14: darboux returns (L, |U - L|), L the sum over adjacent pairs of the
\* smaller value times the step and U that of the larger; a callable gives
\* what its values on the grid give; alternating values 1, 0, 1, ... on n
\* unit-spaced points give (0, n - 1)
C14_Darboux ==
    last.op = "darboux" =>
        LET x == last.args[2].items
            f == last.args[1]
            fx == IF f.kind = "callable" THEN ApplyCallable(f, x) ELSE f.items
            L == PairSum(fx, x, 1, FALSE)
            U == PairSum(fx, x, 1, TRUE)
        IN  /\ last.outcome = Return(Tuple(L, Abs(U - L)))
            /\ f.kind = "callable" => last.outcome = DarbouxFn(Array(fx), x)
            /\ ((\A i \in 1..Len(x) : fx[i] = i % 2 /\ x[i] = i - 1)
                   => last.outcome = Return(Tuple(0, Len(x) - 1)))

\* stagger on the grid 0, 1, 2: lower sum 0, difference 2
C14_Witness ==
    /\ last.op = "darboux"
    /\ last.args = <<Callable("stagger"), Array(<<0, 1, 2>>)>>
    /\ last.outcome = Return(Tuple(0, 2))

\* the sum of the integrals (square = FALSE) or of the squared error
\* estimates (square = TRUE) of the recorded calls of nquad from call i on
RECURSIVE CallSum(_, _, _)
CallSum(calls, i, square) ==
    IF i > Len(calls) THEN 0
    ELSE (IF square THEN Nquad(calls[i].items)[2] * Nquad(calls[i].items)[2]
          ELSE Nquad(calls[i].items)[1])
         + CallSum(calls, i + 1, square)

\* C15: quad_partition calls nquad once per adjacent pair of x0, in order,
\* each time with the pair followed by the unchanged additional limits (none
\* when left out), and returns the sum of the integrals and the square root
\* of the sum of the squared error estimates; (0, 0) for fewer than 2 points
C15_QuadPartition ==
    last.op = "quad_partition" =>
        LET x0 == last.args[1].items
            limits == IF last.args[2] = None THEN <<>> ELSE last.args[2].items
            calls == last.list
        IN  /\ Len(calls) = IF Len(x0) < 2 THEN 0 ELSE Len(x0) - 1
            /\ \A i \in 1..Len(calls) :
                   calls[i] = List(<<x0[i], x0[i + 1]>> \o limits)
            /\ last.outcome
                   = Return(Tuple(CallSum(calls, 1, FALSE), ISqrt(CallSum(calls, 1, TRUE))))
            /\ Len(x0) < 2 => last.outcome = Return(Tuple(0, 0))

\* three points and two additional dimensions: two calls of nquad
C15_Witness ==
    /\ last.op = "quad_partition"
    /\ last.args = <<Array(<<0, 2, 1>>), List(<<0, 2, 1, 3>>)>>
    /\ last.list = <<List(<<0, 2, 0, 2, 1, 3>>), List(<<2, 1, 0, 2, 1, 3>>)>>
    /\ last.outcome = Return(Tuple(8 - 4, ISqrt(9 * 9 + 8 * 8)))

\* C23: the maximum coverage reported in the negative-lower-limit warning of
\* coverage_interval is 100 (1 - F(0)), F the CDF of the resonance's
\* distribution with the resonance's own location and scale, for every
\* shape model
C23_MaximumCoverage ==
    (last.op = "coverage_interval" /\ WarningPositions(NegativeWarning) # {}) =>
        last.result = Number(16 - DistributionCdf(last.self, 0))

\* a grid query with a scalar coverage that returned a grid
ScalarCoverageGrid(op) ==
    /\ last.op = op
    /\ IsNumber(last.args[1])
    /\ last.outcome.exc = "none"
    /\ last.outcome.val # None

\* the grid of the latest query starts and ends at the limits of
\* coverage_interval and carries its warnings about the limits
ResolvedThroughCoverageInterval ==
    LET c == CoverageInterval(last.self, last.args[1].constant, last.newton)
        grid == last.outcome.val.items
    IN  /\ c.exc = "none"
        /\ grid[1] = c.val.items[1]
        /\ grid[Len(grid)] = c.val.items[2]
        /\ \A w \in {NegativeWarning, InfiniteWarning} :
              Cardinality(WarningPositions(w)) =
                  Cardinality({i \in 1..Len(c.warnings) : c.warnings[i] = w})

\* C24: with a scalar coverage c, equidistant_energy_grid and
\* equidistant_probability_grid both take their limits from
\* coverage_interval(c): the first and last grid points are the limits of
\* coverage_interval(c), and its warnings about a negative lower and an
\* infinite upper limit are emitted under the same conditions by both
C24_GridsThroughCoverageInterval ==
    (\/ ScalarCoverageGrid("equidistant_energy_grid")
     \/ ScalarCoverageGrid("equidistant_probability_grid")) =>
        ResolvedThroughCoverageInterval

\* the values of a number or of an array
ValuesOf(v) == IF IsNumber(v) THEN <<v.constant>> ELSE v.items

\* the latest operation is a ppf call of a resonance of one of these kinds,
\* whose newton iteration starts at the resonance energy in every component
\* and finds the root of pseudo_voigt.cdf(E) - q
NewtonOnPseudoVoigtCdf(kinds) ==
    /\ last.op = "ppf"
    /\ last.self.kind \in kinds
    /\ Len(ValuesOf(last.list[1])) = Len(ValuesOf(last.args[1]))
    /\ \A i \in 1..Len(ValuesOf(last.args[1])) :
          /\ ValuesOf(last.list[1])[i] = last.self.resonance_energy
          /\ ValuesOf(last.list[2])[i] =
                 PseudoVoigtExpression(last.self, ValuesOf(last.list[1])[i], "cdf")
                 - ValuesOf(last.args[1])[i]

\* C25 as stated: the ppf of the Voigt model runs newton on
\* pseudo_voigt.cdf(E) - q with the Voigt pdf (voigt_profile, the pdf of the
\* Voigt distribution object) as derivative, every component of the start
\* vector being the resonance energy
C25_VoigtPdfDerivative ==
    (last.op = "ppf" /\ last.self.kind = "Voigt") =>
        /\ NewtonOnPseudoVoigtCdf({"Voigt"})
        /\ \A i \in 1..Len(ValuesOf(last.args[1])) :
              ValuesOf(last.list[3])[i] =
                  VoigtProfile(ValuesOf(last.list[1])[i] - last.self.resonance_energy,
                               last.self.sigma, last.self.gamma)

\* C25: the ppf of the pseudo-Voigt and of the Voigt model runs newton on
\* pseudo_voigt.cdf(E) - q with the pseudo-Voigt pdf as derivative, every
\* component of the start vector being the resonance energy
C25_PseudoVoigtPdfDerivative ==
    last.op = "ppf" =>
        /\ NewtonOnPseudoVoigtCdf({"PseudoVoigt", "Voigt"})
        /\ \A i \in 1..Len(ValuesOf(last.args[1])) :
              ValuesOf(last.list[3])[i] =
                  PseudoVoigtExpression(last.self, ValuesOf(last.list[1])[i], "pdf")

\* ppf of a Voigt resonance for two different quantiles
C25_Witness ==
    /\ last.op = "ppf"
    /\ last.self.kind = "Voigt"
    /\ last.args = <<Array(<<4, 12>>)>>
    /\ last.list[1] = Array(<<last.self.resonance_energy, last.self.resonance_energy>>)
    /\ last.list[2] = Array(<<8 - 4, 8 - 12>>)

\* C26: within one ppf call newton is started at most once and the fallback
\* expression is evaluated at most once, and only in the step that follows
\* a newton attempt that failed with a RuntimeError; nothing is started
\* again after the fallback
C26_OneShotFallback ==
    [][/\ last'.newton_calls <= 1
       /\ last'.fallback_calls <= 1
       /\ last'.fallback_calls > last.fallback_calls =>
              /\ last.newton = "RuntimeError"
              /\ last.newton_calls = 1
              /\ last'.pc = "return"
       /\ last'.newton_calls > last.newton_calls => last.fallback_calls = 0
      ]_vars

\* a call that ended with the fallback after one failed attempt
C26_Witness ==
    /\ last.pc = "return"
    /\ last.newton = "RuntimeError"
    /\ last.newton_calls = 1
    /\ last.fallback_calls = 1
    /\ last.outcome = Warned(<<"UserWarning: numerical inversion of the CDF failed">>,
                             Return(Array(<<PseudoVoigtExpressionPpf(last.self, 4),
                                            PseudoVoigtExpressionPpf(last.self, 12)>>)))

\* the latest operation is the probability grid of a resonance for a limit
\* pair and at least two points
PairGridOfResonance ==
    /\ last.op = "equidistant_probability_grid"
    /\ last.self.kind \in ResonanceKinds
    /\ last.args[1].kind = "tuple"
    /\ last.args[1].items[1] <= last.args[1].items[2]
    /\ last.args[2].constant >= 2

\* C27: for a limit pair lo <= hi and n >= 2 every point of the probability
\* grid of a resonance lies in [lo, hi] and the grid is non-decreasing, also
\* when the CDF is 0 or 1 at the limits
C27_GridWithinLimits ==
    PairGridOfResonance =>
        /\ last.outcome.exc = "none"
        /\ last.outcome.val.kind = "ndarray"
        /\ LET grid == last.outcome.val.items
           IN  /\ \A i \in 1..Len(grid) :
                     /\ last.args[1].items[1] <= grid[i]
                     /\ grid[i] <= last.args[1].items[2]
               /\ \A i \in 1..(Len(grid) - 1) : grid[i] <= grid[i + 1]

\* C28: for every limit pair and every n the probability grid of
\* sum([a, b]) is the probability grid of a + b: the integer 0 that sum()
\* starts from contributes no grid points
C28_SumGridIsPlusGrid ==
    (last.op = "sum" /\ Len(last.list) = 2) =>
        \A limits \in TupleLimits(AlgebraLimitValues), n \in GridSizes :
            ProbabilityGrid(last.result, limits, n, "converged")
                = ProbabilityGrid(PyAdd(last.list[1], last.list[2]), limits, n, "converged")

\* the linear combination of the quantiles of a normal distribution of
\* standard deviation Gamma / (2 sqrt(2 ln 2)) and of a Cauchy distribution of
\* scale Gamma / 2, both centred at the resonance energy
EqualWidthPpf(self, q) ==
    IF q = 0 THEN NegInf
    ELSE IF q = 16 THEN PosInf
    ELSE ((2 - self.eta_halves)
              * Ppf("norm", q, self.resonance_energy, (self.Gamma * 10000) \div 23548)
          + self.eta_halves * Ppf("cauchy", q, self.resonance_energy, self.Gamma \div 2))
         \div 2

\* C29: the two components of the pseudo-Voigt linear combination are
\* centred at the resonance energy and have the full width at half maximum
\* Gamma: the normal one has the standard deviation Gamma / (2 sqrt(2 ln 2)),
\* the Cauchy one the scale Gamma / 2; the fallback ppf is the combination
\* of their quantiles
C29_ComponentWidths ==
    (last.op = "ppf" /\ last.newton = "RuntimeError") =>
        /\ last.self.norm_scale = (last.self.Gamma * 10000) \div 23548
        /\ last.self.cauchy_scale = last.self.Gamma \div 2
        /\ \A i \in 1..Len(ValuesOf(last.args[1])) :
              ValuesOf(last.outcome.val)[i] = EqualWidthPpf(last.self, ValuesOf(last.args[1])[i])

(***************************************************************************)
(* Properties of the algebra on objects with identity (SpecRef)            *)
(***************************************************************************)
CellIds(h) == {c.id : c \in h}

\* C17: no operation changes an existing object or list; + and * return a
\* new CrossSectionWeightedSum whose reactions and scale_factors are new
\* lists, not lists of an operand; evaluation and grid queries change nothing
C17_OperandsNotMutated ==
    [][/\ \A c \in heap : c \in heap'
       /\ last'.op \in {"__add__", "__mul__"} =>
              LET result == CellOf(heap', last'.result.constant)
              IN  /\ result.kind = "CrossSectionWeightedSum"
                  /\ result.id \notin CellIds(heap)
                  /\ result.reactions \notin CellIds(heap)
                  /\ result.scale_factors \notin CellIds(heap)
                  /\ result.reactions # result.scale_factors
       /\ last'.op \in {"__call__", "equidistant_probability_grid"} => heap' = heap
      ]_vars

\* a weighted sum plus something: the sum has its own, longer lists and the
\* operand still has its one reaction
C17_Witness ==
    /\ last.op = "__add__"
    /\ CellOf(heap, last.self.constant).kind = "CrossSectionWeightedSum"
    /\ LET self == CellOf(heap, last.self.constant)
           result == CellOf(heap, last.result.constant)
       IN  /\ result.reactions # self.reactions
           /\ result.scale_factors # self.scale_factors
           /\ Len(CellOf(heap, self.reactions).items) = 1
           /\ Len(CellOf(heap, result.reactions).items) = 2

(***************************************************************************)
(* Properties of the isotope and element aggregations and of the           *)
(* resonance constructor (SpecPhoto)                                       *)
(***************************************************************************)
\* the items of the excited states of isotope that have a nonzero partial
\* width to its ground state
DecayingToGround(isotope) ==
    SelectSeq(isotope.excited_states,
              LAMBDA item :
                  /\ DictHas(item[2].partial_widths, isotope.ground_state.J_pi)
                  /\ DictGet(item[2].partial_widths, isotope.ground_state.J_pi) # 0)

\* the resonance model of one excited state of an isotope
ModelOf(isotope, ResonanceModel, state) ==
    ResonanceInit(ResonanceModel, isotope.ground_state, state, None).val

RECURSIVE ModelSum(_, _, _, _, _)
\* the sum of the values at energy of the models of states[i..]
ModelSum(isotope, ResonanceModel, states, energy, i) ==
    IF i > Len(states) THEN 0
    ELSE Call(ModelOf(isotope, ResonanceModel, states[i][2]), energy).val.constant
             + ModelSum(isotope, ResonanceModel, states, energy, i + 1)

\* C18: an isotope aggregation holds exactly one resonance model for each
\* excited state with a nonzero partial width to the ground state and none
\* for the other excited states, keyed by the state's identifier, and its
\* value at E is the sum of the values of these models at E
C18_IsotopeAggregation ==
    \A x \in heap :
        x.kind = "PhotoabsorptionCrossSectionIsotope" =>
            LET states == DecayingToGround(x.isotope)
            IN  /\ Len(x.resonances) = Len(states)
                /\ \A i \in 1..Len(states) :
                       /\ DictHas(x.resonances, states[i][2].J_pi)
                       /\ DictGet(x.resonances, states[i][2].J_pi)
                              = ModelOf(x.isotope, x.ResonanceModel, states[i][2])
                /\ last.op = "__call__" =>
                       last.outcome
                           = Return(Number(ModelSum(x.isotope, x.ResonanceModel, states,
                                                    last.args[1].constant, 1)))

RECURSIVE AbundanceSum(_, _, _)
\* the sum over the isotopes i.. of the element of x of the abundance times
\* the value at energy of the aggregation of the isotope
AbundanceSum(x, energy, i) ==
    IF i > Len(x.element.isotopes) THEN 0
    ELSE LET item == x.element.isotopes[i]
             aggregation == PhotoabsorptionCrossSectionIsotope(
                                item[2], DictGet(x.resonance_model, item[1])).val
         IN  DictGet(x.element.abundances, item[1])
                     * IsotopeCall(aggregation, energy).val.constant
                 + AbundanceSum(x, energy, i + 1)

\* C19: an element aggregation holds one isotope aggregation per isotope of
\* the element, and its value at E is the sum over the isotopes of the
\* abundance times the value of the isotope's aggregation at E
C19_ElementAggregation ==
    \A x \in heap :
        x.kind = "PhotoabsorptionCrossSectionElement" =>
            /\ Len(x.photoabsorption_cross_sections) = Len(x.element.isotopes)
            /\ \A i \in 1..Len(x.element.isotopes) :
                   \E j \in 1..Len(x.photoabsorption_cross_sections) :
                       x.photoabsorption_cross_sections[j][2]
                           = PhotoabsorptionCrossSectionIsotope(
                                 x.element.isotopes[i][2],
                                 DictGet(x.resonance_model, x.element.isotopes[i][1])).val
            /\ last.op = "__call__" =>
                   last.outcome
                       = Return(Number(AbundanceSum(x, last.args[1].constant, 1)))

\* C30: whatever keys the isotopes mapping of an element uses, the key
\* under which an isotope aggregation is stored at construction is the key
\* under which it and its abundance are looked up at evaluation, so that
\* evaluating an element aggregation succeeds
C30_ElementKeys ==
    \A x \in heap :
        x.kind = "PhotoabsorptionCrossSectionElement" =>
            /\ \A i \in 1..Len(x.element.isotopes) :
                   /\ DictHas(x.photoabsorption_cross_sections, x.element.isotopes[i][1])
                   /\ DictHas(x.element.abundances, x.element.isotopes[i][1])
            /\ last.op = "__call__" => last.outcome.exc = "none"

RECURSIVE TotalWidth(_, _)
\* the sum of the first n partial widths
TotalWidth(partial_widths, n) ==
    IF n = 0 THEN 0 ELSE TotalWidth(partial_widths, n - 1) + partial_widths[n][2]

\* C20: the final_state_branching_ratio of a resonance is 1 if it was
\* constructed without a final state, and otherwise the partial width to the
\* final state over the sum of all partial widths of the intermediate state;
\* evaluating the resonance leaves the value as it was constructed
C20_FinalStateBranchingRatio ==
    \A x \in heap :
        x.kind \in ResonanceKinds =>
            /\ x.final_state = None => x.final_state_branching_ratio = 1000
            /\ x.final_state # None =>
                   /\ DictHas(x.intermediate_state.partial_widths, x.final_state.J_pi)
                   /\ TotalWidth(x.intermediate_state.partial_widths,
                                 Len(x.intermediate_state.partial_widths)) # 0
                   /\ x.final_state_branching_ratio
                          = (1000 * DictGet(x.intermediate_state.partial_widths,
                                            x.final_state.J_pi))
                                \div TotalWidth(x.intermediate_state.partial_widths,
                                                Len(x.intermediate_state.partial_widths))
            /\ last.op = "__call__" => last.self = x

\* the second 3/2^- state decaying to the first 1/2^- state with a quarter
\* of its width, evaluated after its construction
C20_Witness ==
    /\ last.op = "__call__"
    /\ last.self \in heap
    /\ last.self.kind \in ResonanceKinds
    /\ last.self.intermediate_state.J_pi = "3/2^-_2"
    /\ last.self.final_state # None
    /\ last.self.final_state.J_pi = "1/2^-_1"
    /\ last.self.final_state_branching_ratio = 250

\* the resonance of last was constructed without a final state and was
\* evaluated at its resonance energy
EvaluatedAtResonanceEnergy ==
    /\ last.op = "__call__"
    /\ last.self.kind \in ResonanceKinds
    /\ last.self.final_state = None
    /\ last.args = <<Number(last.self.resonance_energy)>>

\* C21 as stated: a Breit-Wigner resonance without final state, evaluated at
\* its resonance energy, returns exactly energy_integrated_cross_section
\* (a value of 1 per MeV is 1000 thousandths)
C21_BreitWignerPeak ==
    (EvaluatedAtResonanceEnergy /\ last.self.kind = "BreitWigner") =>
        last.outcome = Return(Number(1000 * last.self.energy_integrated_cross_section))

\* C21: a resonance of the base class without final state, evaluated at its
\* resonance energy, returns exactly energy_integrated_cross_section (the
\* box of width 1 MeV has the density 1 there); a Breit-Wigner resonance
\* returns energy_integrated_cross_section times the peak 1 / (pi Gamma / 2)
\* of the Cauchy density (318 thousandths / scale, 16 energy units per MeV)
C21_PeakValue ==
    EvaluatedAtResonanceEnergy =>
        /\ last.self.kind = "Resonance" =>
               last.outcome
                   = Return(Number(1000 * last.self.energy_integrated_cross_section))
        /\ last.self.kind = "BreitWigner" =>
               last.outcome
                   = Return(Number(last.self.energy_integrated_cross_section
                                       * ((318 * 16)
                                              \div (last.self.intermediate_state.width
                                                        \div 2))))

\* the 5/2^- state of 11B excited from the ground state, base class shape,
\* evaluated at its resonance energy: statistical factor 6/4, nonzero value
C21_Witness ==
    /\ EvaluatedAtResonanceEnergy
    /\ last.self.kind = "Resonance"
    /\ last.self.intermediate_state = B11Excited4445
    /\ last.self.initial_state.two_J = 3
    /\ last.self.energy_integrated_cross_section = 180
    /\ last.outcome = Return(Number(180000))

(***************************************************************************)
(* Properties of the Debye model (SpecDebye)                               *)
(***************************************************************************)
\* the temperature argument of last is 0 or has an entry that is 0
ZeroTemperature ==
    \/ last.args[1] = Number(0)
    \/ /\ last.args[1].kind = "ndarray"
       /\ \E i \in 1..Len(last.args[1].items) : last.args[1].items[i] = 0

\* C22: effective_temperature_debye_approximation called with a
\* thermodynamic temperature of exactly 0 ends in ZeroDivisionError and
\* returns no value, neither nan nor infinity nor any other
C22_ZeroTemperature ==
    (last.op = "effective_temperature_debye_approximation" /\ ZeroTemperature) =>
        /\ last.outcome.exc = "ZeroDivisionError"
        /\ last.outcome.val = None

\* the call of the test: T = 0.0 with a Debye temperature of 100 K
C22_Witness ==
    /\ last.op = "effective_temperature_debye_approximation"
    /\ last.args = <<Number(0), Number(100)>>
    /\ last.outcome.exc = "ZeroDivisionError"

====
